---- MODULE Spec2Model ----
(***************************************************************************)
(* Model of the capability-manifest library: the compatibility evaluator   *)
(* validateViewer (src/src/validator.ts) applied to a viewer manifest and  *)
(* the metadata of an OME-Zarr dataset, the batch functions of             *)
(* src/src/index.ts, the loader loadManifestsFromUrls (src/src/loader.ts)  *)
(* and the cached entry point (src/unnamed/part_001).                      *)
(*                                                                         *)
(* Representation of JavaScript values                                     *)
(*   optional field       a sequence of length <= 1: << >> is undefined,   *)
(*                        <<v>> is the value v                             *)
(*   version text         a sequence of one-character strings, so that     *)
(*                        parseFloat can be computed character by          *)
(*                        character; a character that a string cannot      *)
(*                        hold here is named by its escape sequence        *)
(*   number               [nan, m, e]: NaN, or the decimal m * 10^(-e)     *)
(*                        with m an integer, no trailing zero in m when    *)
(*                        e > 0; [nan, inf] for Infinity and -Infinity;    *)
(*                        [nan, m, e, negative] for -0                     *)
(*   value of type any    a record tagged by kind                          *)
(***************************************************************************)
EXTENDS Integers, Sequences, FiniteSets, TLC

VARIABLES
    viewer,     \* the ViewerManifest passed to validateViewer
    metadata,   \* the OmeZarrMetadata passed to validateViewer
    result,     \* << >> before the call, <<ValidationResult>> after it
    raised,     \* whether the call of validateViewer threw a TypeError
    before,     \* << >>, or <<the result obtained before a feature was
                \* added to the metadata>>
    manifests,  \* the ViewerManifest[] passed to the batch functions
    names,      \* << >>, or <<the list getCompatibleViewers returned>>
    details,    \* << >>, or <<the list getCompatibleViewersWithDetails returned>>
    calls,      \* the manifests validateViewer was invoked on, in order,
                \* during the last call of a batch function
    manifestUrls,     \* the string[] passed to loadManifestsFromUrls
    responses,        \* what the network holds for each fetch, by position
    tasks,            \* the promises of the map callback, by position
    fetchCalls,       \* the URLs fetch was called with, in call order
    settleOrder,      \* the positions whose task has settled, in settling order
    promise,          \* the promise returned by loadManifestsFromUrls
    loadedManifests,  \* << >>, or <<the Map the promise fulfilled with>>
    warnLog,          \* the calls of console.warn, in order
    cachedManifests,  \* the module variable of the cached entry point:
                      \* << >> for null, or <<the ViewerManifest[]>>
    initializing,     \* the calls of initializeViewerManifests that await:
                      \* the number of the call in call order, and << >>
                      \* or <<what loadViewerManifests fulfilled with>>
    initHistory,      \* the calls of initializeViewerManifests that settled
                      \* and how, in settling order
    lastQuery         \* << >>, or <<the outcome of the last query of the cache>>

validatorVars == <<viewer, metadata, result, raised, before>>
batchVars == <<manifests, names, details, calls>>
loaderVars == <<manifestUrls, responses, tasks, fetchCalls, settleOrder, promise,
                loadedManifests, warnLog>>
cacheVars == <<cachedManifests, initializing, initHistory, lastQuery>>
vars == <<validatorVars, batchVars, loaderVars, cacheVars>>

---------------------------------------------------------------------------
(* Bounds of the model *)

MaxVersions == 2      \* longest ome_zarr_versions list
MaxCodecs == 1        \* longest compression_codecs list
MaxAxes == 2          \* longest metadata.axes list
MaxMultiscales == 2   \* longest metadata.multiscales list
MaxLabels == 1        \* longest metadata.labels list
MaxManifests == 3     \* longest list passed to a batch function
MaxUrls == 2          \* longest list passed to loadManifestsFromUrls
MaxInitializations == 2  \* most calls of initializeViewerManifests

---------------------------------------------------------------------------
(* JavaScript values *)

Undefined == << >>
Some(v) == <<v>>
Opt(S) == {Undefined} \cup {Some(v) : v \in S}
IsPresent(o) == o # Undefined

JsNull == [kind |-> "null"]
JsUndefined == [kind |-> "undefined"]
JsString(s) == [kind |-> "string", text |-> s]
JsObject(id) == [kind |-> "object", id |-> id]
JsMapping(fields) == [kind |-> "object", fields |-> fields]
JsNumber(n) == [kind |-> "number", num |-> n]
JsBoolean(b) == [kind |-> "boolean", bool |-> b]
JsArray(items) == [kind |-> "array", items |-> items]

\* ToBoolean of a value of type any: null, undefined, the empty string,
\* false, 0 and NaN are falsy; every other value (a non-empty string, a
\* non-zero number, every object and array) is truthy.
ToBoolean(v) ==
    CASE v.kind = "null" -> FALSE
      [] v.kind = "undefined" -> FALSE
      [] v.kind = "string" -> v.text # ""
      [] v.kind = "boolean" -> v.bool
      [] v.kind = "number" ->
            IF "inf" \in DOMAIN v.num THEN TRUE
            ELSE ~v.num.nan /\ v.num.m # 0
      [] OTHER -> TRUE

\* Truthiness of an optional field holding a value of type any.
TruthyAny(o) == IsPresent(o) /\ ToBoolean(o[1])

\* Truthiness of an optional boolean flag: undefined and false are falsy.
TruthyFlag(o) == o = Some(TRUE)

\* Truthiness of an optional text (string): undefined and "" are falsy.
TruthyText(o) == IsPresent(o) /\ Len(o[1]) > 0

\* Truthiness of an optional array: every array, also the empty one, is truthy.
TruthyArray(o) == IsPresent(o)

NaN == [nan |-> TRUE, m |-> 0, e |-> 0]

\* Infinity and -Infinity: sign is 1 or -1.
Infinity(sign) == [nan |-> FALSE, inf |-> sign]

\* The number m * 10^-e, without the zeros that end its fraction.
RECURSIVE Dec(_, _)
Dec(m, e) ==
    IF e > 0 /\ m % 10 = 0 THEN Dec(m \div 10, e - 1)
    ELSE [nan |-> FALSE, m |-> m, e |-> e]

RECURSIVE Pow10(_)
Pow10(n) == IF n = 0 THEN 1 ELSE 10 * Pow10(n - 1)

\* -0: the same as 0 for ===, includes and String, a value of its own for
\* Object.is and toEqual.
NegativeZero == [nan |-> FALSE, m |-> 0, e |-> 0, negative |-> TRUE]

\* The Number value of the decimal sign * m * 10^x, m > 0 being written with
\* sig digits, so that 10^(sig + x - 1) <= m * 10^x < 10^(sig + x). A decimal
\* of at most 2^-1075 = 2.4703282292...e-324 rounds to a zero of its sign, one
\* of at least 2^1024 - 2^970 = 1.7976931348...e308 to an infinity. Between
\* the two the value is the decimal itself, which tells two texts of at most
\* ten digits apart exactly when their doubles differ, as long as it is at
\* least 1e-314; the subnormal numbers below that have no value here.
NumberValue(sign, m, sig, x) ==
    IF m = 0 THEN (IF sign < 0 THEN NegativeZero ELSE Dec(0, 0))
    ELSE IF \/ sig + x <= 0 - 324
            \/ sig + x = 0 - 323 /\ (sig = 10 \/ m * Pow10(9 - sig) <= 247032822)
         THEN (IF sign < 0 THEN NegativeZero ELSE Dec(0, 0))
    ELSE IF \/ sig + x >= 310
            \/ sig + x = 309 /\ (IF sig = 10 THEN m > 1797693134
                                  ELSE m * Pow10(9 - sig) > 179769313)
         THEN Infinity(sign)
    ELSE CASE sig + x > 0 - 314 /\ x >= 0 -> Dec(sign * m * Pow10(x), 0)
           [] sig + x > 0 - 314 /\ x < 0 -> Dec(sign * m, 0 - x)

Digits == {"0", "1", "2", "3", "4", "5", "6", "7", "8", "9"}

\* StrWhiteSpaceChar: the white space and the line terminators that
\* parseFloat skips. A character that cannot be written in a string here is
\* named by its escape sequence: "\\v" is the vertical tab U+000B, "\\u00A0"
\* the no-break space.
StrWhiteSpaceChar ==
    {"\t", "\\v", "\f", " ", "\\u00A0", "\\uFEFF", "\n", "\r", "\\u2028",
     "\\u2029", "\\u1680", "\\u2000", "\\u2001", "\\u2002", "\\u2003",
     "\\u2004", "\\u2005", "\\u2006", "\\u2007", "\\u2008", "\\u2009",
     "\\u200A", "\\u202F", "\\u205F", "\\u3000"}

DigitVal(c) ==
    CASE c = "0" -> 0 [] c = "1" -> 1 [] c = "2" -> 2 [] c = "3" -> 3
      [] c = "4" -> 4 [] c = "5" -> 5 [] c = "6" -> 6 [] c = "7" -> 7
      [] c = "8" -> 8 [] c = "9" -> 9

\* The StrDecimalLiteral that text s holds from position i on, read one
\* character at a time. at is the part being read: "space" (leading white
\* space and the sign), "int" (digits before the dot, or Infinity), "frac"
\* (digits after the dot), "e" (just after e or E), "esign" (just after the
\* sign of the exponent), "exp" (digits of the exponent). n holds what has
\* been read: the sign, the number of digits of the mantissa, their value m,
\* the number sig of them from the first one that is not 0 on, the number nf
\* of them after the dot, the sign and the value x of the exponent. The first
\* character that fits nowhere ends the literal: NaN without a digit in the
\* mantissa, else the Number value of sign * m * 10^(xsign * x - nf); an e
\* that no digit follows is not part of the literal.
RECURSIVE StrDecimalLiteral(_, _, _, _)
StrDecimalLiteral(s, i, at, n) ==
    LET c == IF i <= Len(s) THEN s[i] ELSE ""
        word == <<"I", "n", "f", "i", "n", "i", "t", "y">>
    IN  CASE at = "space" /\ c \in StrWhiteSpaceChar ->
                StrDecimalLiteral(s, i + 1, "space", n)
          [] at = "space" /\ c \in {"+", "-"} ->
                StrDecimalLiteral(s, i + 1, "int",
                    [n EXCEPT !.sign = IF c = "-" THEN 0 - 1 ELSE 1])
          [] at = "space" /\ c \notin StrWhiteSpaceChar \cup {"+", "-"} ->
                StrDecimalLiteral(s, i, "int", n)
          [] at = "int" /\ c \in Digits ->
                StrDecimalLiteral(s, i + 1, "int",
                    [n EXCEPT !.m = @ * 10 + DigitVal(c), !.digits = @ + 1,
                              !.sig = IF @ = 0 /\ c = "0" THEN 0 ELSE @ + 1])
          [] at = "int" /\ c = "." ->
                StrDecimalLiteral(s, i + 1, "frac", n)
          [] at = "frac" /\ c \in Digits ->
                StrDecimalLiteral(s, i + 1, "frac",
                    [n EXCEPT !.m = @ * 10 + DigitVal(c), !.digits = @ + 1,
                              !.sig = IF @ = 0 /\ c = "0" THEN 0 ELSE @ + 1,
                              !.nf = @ + 1])
          [] at \in {"int", "frac"} /\ c \in {"e", "E"} /\ n.digits > 0 ->
                StrDecimalLiteral(s, i + 1, "e", n)
          [] at = "e" /\ c \in {"+", "-"} ->
                StrDecimalLiteral(s, i + 1, "esign",
                    [n EXCEPT !.xsign = IF c = "-" THEN 0 - 1 ELSE 1])
          [] at \in {"e", "esign", "exp"} /\ c \in Digits ->
                StrDecimalLiteral(s, i + 1, "exp",
                    [n EXCEPT !.x = @ * 10 + DigitVal(c)])
          [] OTHER ->
                IF /\ at = "int" /\ n.digits = 0
                   /\ i + Len(word) - 1 <= Len(s)
                   /\ \A k \in 1..Len(word) : s[i + k - 1] = word[k]
                THEN Infinity(n.sign)
                ELSE IF n.digits = 0 THEN NaN
                ELSE NumberValue(n.sign, n.m, n.sig, n.xsign * n.x - n.nf)

\* parseFloat: after leading white space, the longest prefix that is a
\* StrDecimalLiteral: an optional sign, then Infinity, or digits [. digits]
\* or . digits, then an exponent when e or E is followed by an optional sign
\* and at least one digit; NaN when there is no such prefix.
parseFloat(s) ==
    StrDecimalLiteral(s, 1, "space",
        [sign |-> 1, digits |-> 0, sig |-> 0, m |-> 0, nf |-> 0, xsign |-> 1,
         x |-> 0])

\* SameValueZero of two numbers: NaN equals NaN and -0 equals 0.
SameValueZero(x, y) ==
    x = y \/ (x \in {Dec(0, 0), NegativeZero} /\ y \in {Dec(0, 0), NegativeZero})

\* Array.prototype.includes of a list of numbers.
Includes(list, x) == \E i \in 1..Len(list) : SameValueZero(list[i], x)

\* `${n}` in a message: the text of -0 is that of 0.
Interpolated(n) == JsNumber(IF n = NegativeZero THEN Dec(0, 0) ELSE n)

---------------------------------------------------------------------------
(* validateViewer, src/src/validator.ts *)

ValidationError(capability, message, required, found) ==
    [capability |-> capability, message |-> message,
     required |-> required, found |-> found]

ValidationWarning(capability, message) ==
    [capability |-> capability, message |-> message]

NoIssues == [errors |-> << >>, warnings |-> << >>]
Error(e) == [errors |-> <<e>>, warnings |-> << >>]
Warning(w) == [errors |-> << >>, warnings |-> <<w>>]

\* Lines 24-35: dataVersion, << >> standing for null.
DataVersionLastMultiscale(md) ==
    IF TruthyText(md.version) THEN Some(parseFloat(md.version[1]))
    ELSE IF /\ TruthyArray(md.multiscales)
            /\ Len(md.multiscales[1]) > 0
            /\ TruthyText(md.multiscales[1][Len(md.multiscales[1])].version)
         THEN Some(parseFloat(md.multiscales[1][Len(md.multiscales[1])].version[1]))
         ELSE Undefined

DataVersion(md) ==
    IF TruthyText(md.version) THEN Some(parseFloat(md.version[1]))
    ELSE IF /\ TruthyArray(md.multiscales)
            /\ Len(md.multiscales[1]) > 0
            /\ TruthyText(md.multiscales[1][1].version)
         THEN Some(parseFloat(md.multiscales[1][1].version[1]))
         ELSE Undefined

\* Lines 37-61: the version rule.
VersionRuleNoAbsentError(v, md) ==
    LET dataVersion == DataVersion(md)
        declared == v.capabilities.ome_zarr_versions
    IN  IF dataVersion = Undefined THEN NoIssues
        ELSE IF ~TruthyArray(declared) \/ Len(declared[1]) = 0 THEN
            Error(ValidationError("ome_zarr_versions",
                <<JsString("Viewer does not specify OME-Zarr version support (data is v"),
                  Interpolated(dataVersion[1]), JsString(")")>>,
                JsNumber(dataVersion[1]), JsArray(<< >>)))
        ELSE IF ~Includes(declared[1], dataVersion[1]) THEN
            Error(ValidationError("ome_zarr_versions",
                <<JsString("Viewer does not support OME-Zarr v"),
                  Interpolated(dataVersion[1]), JsString(" (supports: "),
                  JsArray(declared[1]), JsString(")")>>,
                JsNumber(dataVersion[1]), JsArray(declared[1])))
        ELSE NoIssues

VersionRuleFirstEntryOnly(v, md) ==
    LET dataVersion == DataVersion(md)
        declared == v.capabilities.ome_zarr_versions
    IN  IF dataVersion = Undefined THEN
            Error(ValidationError("ome_zarr_versions",
                <<JsString("Metadata does not specify an OME-Zarr version")>>,
                JsString("version"), JsNull))
        ELSE IF ~TruthyArray(declared) \/ Len(declared[1]) = 0 THEN
            Error(ValidationError("ome_zarr_versions",
                <<JsString("Viewer does not specify OME-Zarr version support (data is v"),
                  Interpolated(dataVersion[1]), JsString(")")>>,
                JsNumber(dataVersion[1]), JsArray(<< >>)))
        ELSE IF ~SameValueZero(declared[1][1], dataVersion[1]) THEN
            Error(ValidationError("ome_zarr_versions",
                <<JsString("Viewer does not support OME-Zarr v"),
                  Interpolated(dataVersion[1]), JsString(" (supports: "),
                  JsArray(declared[1]), JsString(")")>>,
                JsNumber(dataVersion[1]), JsArray(declared[1])))
        ELSE NoIssues

VersionRule(v, md) ==
    LET dataVersion == DataVersion(md)
        declared == v.capabilities.ome_zarr_versions
    IN  IF dataVersion = Undefined THEN
            Error(ValidationError("ome_zarr_versions",
                <<JsString("Metadata does not specify an OME-Zarr version")>>,
                JsString("version"), JsNull))
        ELSE IF ~TruthyArray(declared) \/ Len(declared[1]) = 0 THEN
            Error(ValidationError("ome_zarr_versions",
                <<JsString("Viewer does not specify OME-Zarr version support (data is v"),
                  Interpolated(dataVersion[1]), JsString(")")>>,
                JsNumber(dataVersion[1]), JsArray(<< >>)))
        ELSE IF ~Includes(declared[1], dataVersion[1]) THEN
            Error(ValidationError("ome_zarr_versions",
                <<JsString("Viewer does not support OME-Zarr v"),
                  Interpolated(dataVersion[1]), JsString(" (supports: "),
                  JsArray(declared[1]), JsString(")")>>,
                JsNumber(dataVersion[1]), JsArray(declared[1])))
        ELSE NoIssues

CodecWithoutId(c) == c

\* Line 65: metadata.compressor.id || metadata.compressor, for a truthy
\* compressor c. A string has no id property; an object without a truthy id
\* yields the object itself.
Codec(c) ==
    IF c.kind = "object" /\ TruthyAny(c.id) THEN c.id[1] ELSE c

\* compression_codecs.includes(codec): the list holds strings, so only a
\* string codec can be a member, and SameValueZero of two strings is their
\* equality.
IncludesCodec(list, codec) ==
    codec.kind = "string" /\ \E i \in 1..Len(list) : list[i] = codec.text

\* Lines 63-80: the compression codec rule.
CodecRuleErrorWithoutList(v, md) ==
    LET declared == v.capabilities.compression_codecs
    IN  IF ~TruthyAny(md.compressor) THEN NoIssues
        ELSE LET codec == Codec(md.compressor[1])
             IN  IF ~TruthyArray(declared) THEN
                     Error(ValidationError("compression_codecs",
                         <<JsString("Viewer does not support compression codec: "), codec>>,
                         codec, JsArray(<< >>)))
                 ELSE IF ~IncludesCodec(declared[1], codec) THEN
                     Error(ValidationError("compression_codecs",
                         <<JsString("Viewer does not support compression codec: "), codec>>,
                         codec, JsArray(declared[1])))
                 ELSE NoIssues

CodecRule(v, md) ==
    LET declared == v.capabilities.compression_codecs
    IN  IF ~TruthyAny(md.compressor) THEN NoIssues
        ELSE LET codec == Codec(md.compressor[1])
             IN  IF ~TruthyArray(declared) THEN
                     Warning(ValidationWarning("compression_codecs",
                         <<JsString("Data uses codec '"), codec,
                           JsString("' but viewer doesn't declare codec support - compatibility unknown")>>))
                 ELSE IF ~IncludesCodec(declared[1], codec) THEN
                     Error(ValidationError("compression_codecs",
                         <<JsString("Viewer does not support compression codec: "), codec>>,
                         codec, JsArray(declared[1])))
                 ELSE NoIssues

\* Lines 82-88: the axes rule.
AxesRuleNonEmptyOnly(v, md) ==
    IF /\ TruthyArray(md.axes)
       /\ Len(md.axes[1]) > 0
       /\ ~TruthyFlag(v.capabilities.axes)
    THEN Warning(ValidationWarning("axes",
             <<JsString("Dataset has axis metadata but viewer may not respect it")>>))
    ELSE NoIssues

AxesRule(v, md) ==
    IF TruthyArray(md.axes) /\ ~TruthyFlag(v.capabilities.axes)
    THEN Warning(ValidationWarning("axes",
             <<JsString("Dataset has axis metadata but viewer may not respect it")>>))
    ELSE NoIssues

\* Lines 91-93: metadata.axes?.some(...), undefined (falsy) without axes.
IsChannelAxis(ax) == ax.name = "c" \/ ax.type = Some("channel")

HasChannelsByNameOnly(md) ==
    TruthyArray(md.axes) /\ \E i \in 1..Len(md.axes[1]) : md.axes[1][i].name = "c"

HasChannelsEveryAxis(md) ==
    /\ TruthyArray(md.axes)
    /\ Len(md.axes[1]) > 0
    /\ \A i \in 1..Len(md.axes[1]) : IsChannelAxis(md.axes[1][i])

HasChannels(md) ==
    TruthyArray(md.axes) /\ \E i \in 1..Len(md.axes[1]) : IsChannelAxis(md.axes[1][i])

\* Lines 94-101: the channels rule.
ChannelsRule(v, md) ==
    IF HasChannels(md) /\ ~TruthyFlag(v.capabilities.channels)
    THEN Error(ValidationError("channels",
             <<JsString("Dataset has multiple channels but viewer does not support them")>>,
             JsBoolean(TRUE), JsBoolean(FALSE)))
    ELSE NoIssues

\* Line 104
IsTimeAxis(ax) == ax.name = "t" \/ ax.type = Some("time")

HasTime(md) ==
    TruthyArray(md.axes) /\ \E i \in 1..Len(md.axes[1]) : IsTimeAxis(md.axes[1][i])

\* Lines 105-112: the timepoints rule.
TimepointsRule(v, md) ==
    IF HasTime(md) /\ ~TruthyFlag(v.capabilities.timepoints)
    THEN Error(ValidationError("timepoints",
             <<JsString("Dataset has multiple timepoints but viewer does not support them")>>,
             JsBoolean(TRUE), JsBoolean(FALSE)))
    ELSE NoIssues

\* Lines 114-120: the labels rule.
LabelsRuleAsError(v, md) ==
    IF /\ TruthyArray(md.labels)
       /\ Len(md.labels[1]) > 0
       /\ ~TruthyFlag(v.capabilities.labels)
    THEN Error(ValidationError("labels",
             <<JsString("Dataset has labels but viewer does not support them")>>,
             JsBoolean(TRUE), JsBoolean(FALSE)))
    ELSE NoIssues

LabelsRule(v, md) ==
    IF /\ TruthyArray(md.labels)
       /\ Len(md.labels[1]) > 0
       /\ ~TruthyFlag(v.capabilities.labels)
    THEN Warning(ValidationWarning("labels",
             <<JsString("Dataset has labels but viewer may not display them")>>))
    ELSE NoIssues

\* Lines 122-130: the HCS plate rule.
PlateRuleAsWarning(v, md) ==
    IF TruthyAny(md.plate) /\ ~TruthyFlag(v.capabilities.hcs_plates)
    THEN Warning(ValidationWarning("hcs_plates",
             <<JsString("Dataset is an HCS plate but viewer does not support plates")>>))
    ELSE NoIssues

\* The plate rule with a message that names the viewer.
PlateRuleNamingViewer(v, md) ==
    IF TruthyAny(md.plate) /\ ~TruthyFlag(v.capabilities.hcs_plates)
    THEN Error(ValidationError("hcs_plates",
             <<JsString(v.viewer.name),
               JsString("does not support HCS plates")>>,
             JsBoolean(TRUE), JsBoolean(FALSE)))
    ELSE NoIssues

PlateRule(v, md) ==
    IF TruthyAny(md.plate) /\ ~TruthyFlag(v.capabilities.hcs_plates)
    THEN Error(ValidationError("hcs_plates",
             <<JsString("Dataset is an HCS plate but viewer does not support plates")>>,
             JsBoolean(TRUE), JsBoolean(FALSE)))
    ELSE NoIssues

OmeroRuleAsError(v, md) ==
    IF TruthyAny(md.omero) /\ ~TruthyFlag(v.capabilities.omero_metadata)
    THEN Error(ValidationError("omero_metadata",
             <<JsString("Dataset has OMERO metadata but viewer may not use it")>>,
             JsBoolean(TRUE), JsBoolean(FALSE)))
    ELSE NoIssues

\* Lines 132-138: the OMERO metadata rule.
OmeroRule(v, md) ==
    IF TruthyAny(md.omero) /\ ~TruthyFlag(v.capabilities.omero_metadata)
    THEN Warning(ValidationWarning("omero_metadata",
             <<JsString("Dataset has OMERO metadata but viewer may not use it")>>))
    ELSE NoIssues

\* Lines 140-144: the returned ValidationResult.
ValidationResultCountingWarnings(errors, warnings) ==
    [compatible |-> Len(errors) = 0 /\ Len(warnings) = 0,
     errors |-> errors, warnings |-> warnings]

ValidationResult(errors, warnings) ==
    [compatible |-> Len(errors) = 0, errors |-> errors, warnings |-> warnings]

\* validateViewer returning as soon as the version rule has reported an error.
validateViewerStoppingAtVersion(v, md) ==
    LET version == VersionRule(v, md)
    IN  IF version.errors # << >>
        THEN ValidationResult(version.errors, version.warnings)
        ELSE ValidationResult(
                CodecRule(v, md).errors \o ChannelsRule(v, md).errors
                    \o TimepointsRule(v, md).errors \o PlateRule(v, md).errors,
                CodecRule(v, md).warnings \o AxesRule(v, md).warnings
                    \o LabelsRule(v, md).warnings \o OmeroRule(v, md).warnings)

\* Lines 16-145: the rules push onto errors and warnings in source order.
validateViewer(v, md) ==
    LET version == VersionRule(v, md)
        codec == CodecRule(v, md)
        axes == AxesRule(v, md)
        channels == ChannelsRule(v, md)
        timepoints == TimepointsRule(v, md)
        labels == LabelsRule(v, md)
        plate == PlateRule(v, md)
        omero == OmeroRule(v, md)
    IN  ValidationResult(
            version.errors \o codec.errors \o axes.errors \o channels.errors
                \o timepoints.errors \o labels.errors \o plate.errors \o omero.errors,
            version.warnings \o codec.warnings \o axes.warnings \o channels.warnings
                \o timepoints.warnings \o labels.warnings \o plate.warnings
                \o omero.warnings)

\* Reading a property of undefined or null throws a TypeError.
DerefRaises(o) == o = Undefined

\* Lines 16-145: whether the call throws, every property read of the body
\* with the condition under which it is evaluated. viewer.capabilities is
\* read by each rule once the rule's metadata condition holds.
validateViewerRaisesUnguardedLabels(v, md) ==
    LET nullish == v.capabilities = JsNull
    IN  \/ /\ ~TruthyText(md.version)
           /\ TruthyArray(md.multiscales)
           /\ DerefRaises(md.multiscales)
        \/ DataVersion(md) # Undefined /\ nullish
        \/ /\ DataVersion(md) # Undefined /\ ~nullish
           /\ TruthyArray(v.capabilities.ome_zarr_versions)
           /\ DerefRaises(v.capabilities.ome_zarr_versions)
        \/ TruthyAny(md.compressor) /\ DerefRaises(md.compressor)
        \/ TruthyAny(md.compressor) /\ nullish
        \/ /\ TruthyAny(md.compressor) /\ ~nullish
           /\ TruthyArray(v.capabilities.compression_codecs)
           /\ DerefRaises(v.capabilities.compression_codecs)
        \/ TruthyArray(md.axes) /\ nullish
        \/ HasChannels(md) /\ nullish
        \/ HasTime(md) /\ nullish
        \/ DerefRaises(md.labels)
        \/ TruthyArray(md.labels) /\ Len(md.labels[1]) > 0 /\ nullish
        \/ TruthyAny(md.plate) /\ nullish
        \/ TruthyAny(md.omero) /\ nullish

validateViewerRaises(v, md) ==
    LET nullish == v.capabilities = JsNull
    IN  \* line 30-32: multiscales.length, multiscales[0].version
        \/ /\ ~TruthyText(md.version)
           /\ TruthyArray(md.multiscales)
           /\ DerefRaises(md.multiscales)
        \* line 45: viewer.capabilities.ome_zarr_versions
        \/ DataVersion(md) # Undefined /\ nullish
        \* lines 46, 54: ome_zarr_versions.length, .includes
        \/ /\ DataVersion(md) # Undefined /\ ~nullish
           /\ TruthyArray(v.capabilities.ome_zarr_versions)
           /\ DerefRaises(v.capabilities.ome_zarr_versions)
        \* line 65: metadata.compressor.id
        \/ TruthyAny(md.compressor) /\ DerefRaises(md.compressor)
        \* line 66: viewer.capabilities.compression_codecs
        \/ TruthyAny(md.compressor) /\ nullish
        \* line 72: compression_codecs.includes
        \/ /\ TruthyAny(md.compressor) /\ ~nullish
           /\ TruthyArray(v.capabilities.compression_codecs)
           /\ DerefRaises(v.capabilities.compression_codecs)
        \* line 83: metadata.axes && !viewer.capabilities.axes
        \/ TruthyArray(md.axes) /\ nullish
        \* line 94: hasChannels && !viewer.capabilities.channels
        \/ HasChannels(md) /\ nullish
        \* line 105: hasTime && !viewer.capabilities.timepoints
        \/ HasTime(md) /\ nullish
        \* line 115: metadata.labels && metadata.labels.length > 0 && ...
        \/ TruthyArray(md.labels) /\ DerefRaises(md.labels)
        \/ TruthyArray(md.labels) /\ Len(md.labels[1]) > 0 /\ nullish
        \* line 123: metadata.plate && !viewer.capabilities.hcs_plates
        \/ TruthyAny(md.plate) /\ nullish
        \* line 133: metadata.omero && !viewer.capabilities.omero_metadata
        \/ TruthyAny(md.omero) /\ nullish

\* validator.ts lines 155-160.
isCompatible(v, md) == validateViewer(v, md).compatible

---------------------------------------------------------------------------
(* The batch functions, src/src/index.ts. Each returns its value together
   with the manifests validateViewer was invoked on while computing it. *)

\* manifests.filter(viewer => isCompatible(viewer, metadata)), from index i
\* on: the callback runs once per element, in order, and each run invokes
\* validateViewer once.
RECURSIVE FilterCompatiblePrepending(_, _, _, _)
FilterCompatiblePrepending(ms, md, i, acc) ==
    IF i > Len(ms) THEN acc
    ELSE FilterCompatiblePrepending(ms, md, i + 1,
            [kept |-> IF isCompatible(ms[i], md)
                      THEN <<ms[i]>> \o acc.kept ELSE acc.kept,
             calls |-> Append(acc.calls, ms[i])])

RECURSIVE FilterCompatible(_, _, _, _)
FilterCompatible(ms, md, i, acc) ==
    IF i > Len(ms) THEN acc
    ELSE FilterCompatible(ms, md, i + 1,
            [kept |-> IF isCompatible(ms[i], md)
                      THEN Append(acc.kept, ms[i]) ELSE acc.kept,
             calls |-> Append(acc.calls, ms[i])])

NothingKept == [kept |-> << >>, calls |-> << >>]

\* index.ts lines 26-33.
getCompatibleViewersWithFallback(ms, md) ==
    LET f == FilterCompatible(ms, md, 1, NothingKept)
    IN  [value |-> IF f.kept = << >> THEN <<"Neuroglancer">>
                   ELSE [j \in 1..Len(f.kept) |-> f.kept[j].viewer.name],
         calls |-> f.calls]

getCompatibleViewers(ms, md) ==
    LET f == FilterCompatible(ms, md, 1, NothingKept)
    IN  [value |-> [j \in 1..Len(f.kept) |-> f.kept[j].viewer.name],
         calls |-> f.calls]

\* index.ts lines 43-53: the map callback invokes validateViewer again on
\* every manifest the filter kept.
getCompatibleViewersWithDetailsByInputIndex(ms, md) ==
    LET f == FilterCompatible(ms, md, 1, NothingKept)
    IN  [value |-> [j \in 1..Len(f.kept) |->
                        [name |-> f.kept[j].viewer.name,
                         validation |-> validateViewer(ms[j], md)]],
         calls |-> f.calls \o f.kept]

getCompatibleViewersWithDetails(ms, md) ==
    LET f == FilterCompatible(ms, md, 1, NothingKept)
    IN  [value |-> [j \in 1..Len(f.kept) |->
                        [name |-> f.kept[j].viewer.name,
                         validation |-> validateViewer(f.kept[j], md)]],
         calls |-> f.calls \o f.kept]

---------------------------------------------------------------------------
(* The inputs of validateViewer *)

SeqsUpTo(S, n) == UNION {[1..k -> S] : k \in 0..n}

\* Numbers a manifest declares in ome_zarr_versions: 0.4 and 0.5.
VersionNumbers == {Dec(4, 1), Dec(5, 1)}

\* Version texts of a dataset: "", "0.4", "0.5", "0.40", "v1", "4e-1",
\* "-0.4", " 0.5" and "Infinity".
VersionTexts ==
    {<< >>, <<"0", ".", "4">>, <<"0", ".", "5">>, <<"0", ".", "4", "0">>,
     <<"v", "1">>, <<"4", "e", "-", "1">>, <<"-", "0", ".", "4">>,
     <<" ", "0", ".", "5">>, <<"I", "n", "f", "i", "n", "i", "t", "y">>}

\* MultiscaleMetadata: only its version is read.
MultiscaleEntries ==
    [version : Opt({<< >>, <<"0", ".", "4">>, <<"0", ".", "5">>})]

CodecNames == {"blosc", "zstd"}

\* metadata.compressor: null, "", 0, 5, a codec name, {}, {id: ""},
\* {id: name}.
Compressors ==
    {JsNull, JsString(""), JsNumber(Dec(0, 0)), JsNumber(Dec(5, 0))}
        \cup {JsString(c) : c \in CodecNames}
        \cup {JsObject(Undefined), JsObject(Some(JsString("")))}
        \cup {JsObject(Some(JsString(c))) : c \in CodecNames}

\* AxisMetadata: name and optional type.
AxisEntries == [name : {"c", "t", "x"}, type : Opt({"channel", "time"})]

LabelNames == {"cells"}

\* metadata.plate and metadata.omero, of type any: null, 0, NaN or an object.
AnyValues == {JsNull, JsNumber(Dec(0, 0)), JsNumber(NaN), JsObject(Undefined)}

Flags == Opt(BOOLEAN)

\* The fields each rule reads, of the manifest and of the metadata. For the
\* version rule: every list of 0.4 and 0.5 with every version text and every
\* multiscales list; and the lists [0] and [0.4, 0.5] with the texts that
\* meet the edges of parseFloat, "\\v0.5" (0.5 after a vertical tab), "-0"
\* and "1e-400", at the root or in the first multiscales entry.
VersionInputs ==
    [declared : Opt(SeqsUpTo(VersionNumbers, MaxVersions)),
     version : Opt(VersionTexts),
     multiscales : Opt(SeqsUpTo(MultiscaleEntries, MaxMultiscales))]
    \cup
    [declared : Opt({<<Dec(0, 0)>>, <<Dec(4, 1), Dec(5, 1)>>}),
     version : Opt(VersionTexts
                   \cup {<<"\\v", "0", ".", "5">>, <<"-", "0">>,
                         <<"1", "e", "-", "4", "0", "0">>}),
     multiscales : {Undefined, Some(<<[version |-> Some(<<"-", "0">>)]>>)}]

CodecInputs ==
    [declared : Opt(SeqsUpTo(CodecNames, MaxCodecs)),
     compressor : Opt(Compressors)]

AxesInputs ==
    [axesFlag : Flags, channels : Flags, timepoints : Flags,
     axes : Opt(SeqsUpTo(AxisEntries, MaxAxes))]

LabelsInputs == [flag : Flags, labels : Opt(SeqsUpTo(LabelNames, MaxLabels))]

PlateInputs == [flag : Flags, plate : Opt(AnyValues)]

OmeroInputs == [flag : Flags, omero : Opt(AnyValues)]

Groups == {"version", "codec", "axes", "labels", "plate", "omero"}

\* Inputs on which a rule reports nothing, and inputs on which it reports.
QuietVersion ==
    [declared |-> Some(<<Dec(4, 1)>>), version |-> Some(<<"0", ".", "4">>),
     multiscales |-> Undefined]
LoudVersion ==
    [declared |-> Undefined, version |-> Undefined, multiscales |-> Undefined]
QuietCodec == [declared |-> Undefined, compressor |-> Undefined]
LoudCodec ==
    [declared |-> Some(<<"blosc">>),
     compressor |-> Some(JsObject(Some(JsString("zstd"))))]
QuietAxes ==
    [axesFlag |-> Undefined, channels |-> Undefined, timepoints |-> Undefined,
     axes |-> Undefined]
LoudAxes ==
    [axesFlag |-> Undefined, channels |-> Undefined, timepoints |-> Undefined,
     axes |-> Some(<<[name |-> "c", type |-> Some("channel")],
                     [name |-> "t", type |-> Some("time")]>>)]
QuietLabels == [flag |-> Undefined, labels |-> Undefined]
LoudLabels == [flag |-> Undefined, labels |-> Some(<<"cells">>)]
QuietPlate == [flag |-> Undefined, plate |-> Undefined]
LoudPlate == [flag |-> Undefined, plate |-> Some(JsObject(Undefined))]
QuietOmero == [flag |-> Undefined, omero |-> Undefined]
LoudOmero == [flag |-> Undefined, omero |-> Some(JsObject(Undefined))]

\* For each rule other than the one in focus: whether it reports.
Backgrounds == [Groups -> BOOLEAN]

Pick(g, focus, bg, all, quiet, loud) ==
    IF g = focus THEN all ELSE IF bg[g] THEN {loud} ELSE {quiet}

\* The capabilities validateViewer reads.
CapabilityKeys ==
    {"ome_zarr_versions", "compression_codecs", "axes", "channels",
     "timepoints", "labels", "hcs_plates", "omero_metadata"}

MakeViewer(gv, gc, ga, gl, gp, go) ==
    [viewer |-> [name |-> "TestViewer", version |-> "1.0.0"],
     capabilities |->
        [ome_zarr_versions |-> gv.declared,
         compression_codecs |-> gc.declared,
         axes |-> ga.axesFlag,
         channels |-> ga.channels,
         timepoints |-> ga.timepoints,
         labels |-> gl.flag,
         hcs_plates |-> gp.flag,
         omero_metadata |-> go.flag]]

MakeMetadata(gv, gc, ga, gl, gp, go) ==
    [version |-> gv.version,
     axes |-> ga.axes,
     multiscales |-> gv.multiscales,
     omero |-> go.omero,
     labels |-> gl.labels,
     plate |-> gp.plate,
     compressor |-> gc.compressor]

\* No batch function has been called.
BatchIdle ==
    /\ manifests = << >>
    /\ names = Undefined
    /\ details = Undefined
    /\ calls = << >>

\* loadManifestsFromUrls has not been called.
LoaderIdle ==
    /\ manifestUrls = << >>
    /\ responses = << >>
    /\ tasks = << >>
    /\ fetchCalls = << >>
    /\ settleOrder = << >>
    /\ promise = "idle"
    /\ loadedManifests = Undefined
    /\ warnLog = << >>

\* The module of the cached entry point has just been loaded.
CacheIdle ==
    /\ cachedManifests = Undefined
    /\ initializing = {}
    /\ initHistory = << >>
    /\ lastQuery = Undefined

---------------------------------------------------------------------------
(* The state machine: a caller holds a manifest and a metadata and calls
   validateViewer on them. *)

\* The rules other than the one in focus all report, or none does.
UniformBackgrounds == {[g \in Groups |-> b] : b \in BOOLEAN}

InputsOver(backgrounds) ==
    \E focus \in Groups, bg \in backgrounds :
        \E gv \in Pick("version", focus, bg, VersionInputs, QuietVersion, LoudVersion),
           gc \in Pick("codec", focus, bg, CodecInputs, QuietCodec, LoudCodec),
           ga \in Pick("axes", focus, bg, AxesInputs, QuietAxes, LoudAxes),
           gl \in Pick("labels", focus, bg, LabelsInputs, QuietLabels, LoudLabels),
           gp \in Pick("plate", focus, bg, PlateInputs, QuietPlate, LoudPlate),
           go \in Pick("omero", focus, bg, OmeroInputs, QuietOmero, LoudOmero) :
            /\ viewer = MakeViewer(gv, gc, ga, gl, gp, go)
            /\ metadata = MakeMetadata(gv, gc, ga, gl, gp, go)

Init ==
    /\ InputsOver(Backgrounds)
    /\ result = Undefined
    /\ raised = FALSE
    /\ before = Undefined
    /\ BatchIdle
    /\ LoaderIdle
    /\ CacheIdle

Validate ==
    /\ result = Undefined
    /\ ~raised
    /\ IF validateViewerRaises(viewer, metadata)
       THEN raised' = TRUE /\ result' = Undefined
       ELSE raised' = FALSE /\ result' = Some(validateViewer(viewer, metadata))
    /\ UNCHANGED <<viewer, metadata, before, batchVars, loaderVars, cacheVars>>

Next == Validate

Spec == Init /\ [][Next]_vars

---------------------------------------------------------------------------
(* Vocabulary of the properties. "Present" is read as the code tests it: a
   field holding a truthy value, where every list, also the empty one, is
   truthy and null, the empty text, 0 and NaN are not. *)

FalsyValues == {JsNull, JsString(""), JsNumber(Dec(0, 0)), JsNumber(NaN)}

Called == result # Undefined
Res == result[1]
Caps == viewer.capabilities

ErrorsFor(cap) == {i \in 1..Len(Res.errors) : Res.errors[i].capability = cap}
WarningsFor(cap) == {i \in 1..Len(Res.warnings) : Res.warnings[i].capability = cap}
HasError(cap) == ErrorsFor(cap) # {}
HasWarning(cap) == WarningsFor(cap) # {}

FlagOff(flag) == flag = Undefined \/ flag = Some(FALSE)
NonEmptyText(o) == o # Undefined /\ o[1] # << >>

RootVersionPresent == NonEmptyText(metadata.version)
FirstMultiscaleVersionPresent ==
    /\ metadata.multiscales # Undefined
    /\ metadata.multiscales[1] # << >>
    /\ NonEmptyText(Head(metadata.multiscales[1]).version)

\* The version text the dataset resolves to: the root version, otherwise the
\* version of the first multiscales entry.
ResolvedVersionText ==
    IF RootVersionPresent THEN metadata.version[1]
    ELSE Head(metadata.multiscales[1]).version[1]

DeclaredVersions ==
    IF Caps.ome_zarr_versions = Undefined THEN << >> ELSE Caps.ome_zarr_versions[1]

IsMember(x, list) == x \in {list[i] : i \in 1..Len(list)}

\* The number a Number value stands for: -0 and 0 are one number.
TheNumber(n) == IF "negative" \in DOMAIN n THEN [nan |-> FALSE, m |-> 0, e |-> 0] ELSE n

\* n is a member of the list of numbers.
IsMemberNumber(n, list) == \E k \in 1..Len(list) : TheNumber(list[k]) = TheNumber(n)

\* The version rule's outcome when the dataset's version text is text.
VersionOutcomeFor(text) ==
    LET n == parseFloat(text)
    IN  /\ HasError("ome_zarr_versions") <=> ~IsMemberNumber(n, DeclaredVersions)
        /\ \A i \in ErrorsFor("ome_zarr_versions") :
              Res.errors[i].required = JsNumber(n)

AbsentVersionError(e) ==
    /\ e.capability = "ome_zarr_versions"
    /\ e.required = JsString("version")
    /\ e.found = JsNull

---------------------------------------------------------------------------
(* C1: in every result of validateViewer, compatible is true exactly when the
   errors list is empty, whatever the number of warnings. *)
CompatibleIffNoErrors ==
    Called => (Res.compatible <=> Res.errors = << >>)

\* A compatible result that carries warnings.
CompatibleWithWarnings ==
    /\ Called
    /\ Res.compatible
    /\ Res.errors = << >>
    /\ Len(Res.warnings) >= 2

(* C2: when the dataset's version text resolves and parses to n, the errors
   hold an ome_zarr_versions entry exactly when the declared list V is absent,
   empty or does not contain n; the entry's required is n and its found is V,
   the empty list for an absent or empty V. *)
VersionMembership ==
    (Called /\ (RootVersionPresent \/ FirstMultiscaleVersionPresent)) =>
        LET n == parseFloat(ResolvedVersionText)
            V == Caps.ome_zarr_versions
            unsupported ==
                \/ V = Undefined
                \/ V[1] = << >>
                \/ ~IsMemberNumber(n, V[1])
        IN  /\ HasError("ome_zarr_versions") <=> unsupported
            /\ \A i \in ErrorsFor("ome_zarr_versions") :
                  /\ Res.errors[i].required = JsNumber(n)
                  /\ Res.errors[i].found =
                        JsArray(IF V = Undefined THEN << >> ELSE V[1])

\* Text "0.40" against the declared list [0.5, 0.4]: supported, no entry.
VersionFoundLaterInList ==
    /\ Called
    /\ metadata.version = Some(<<"0", ".", "4", "0">>)
    /\ Caps.ome_zarr_versions = Some(<<Dec(5, 1), Dec(4, 1)>>)
    /\ ~HasError("ome_zarr_versions")

(* C3: a dataset with no version at the root and none in the first
   multiscales entry is incompatible with every manifest, with an
   ome_zarr_versions error whose required is 'version' and found is null. *)
AbsentVersionAlwaysError ==
    (Called /\ ~RootVersionPresent /\ ~FirstMultiscaleVersionPresent) =>
        /\ ~Res.compatible
        /\ \E i \in 1..Len(Res.errors) : AbsentVersionError(Res.errors[i])

\* No version anywhere, against a manifest that declares 0.4 and 0.5.
AbsentVersionRejected ==
    /\ Called
    /\ metadata.version = Undefined
    /\ metadata.multiscales = Undefined
    /\ Caps.ome_zarr_versions = Some(<<Dec(4, 1), Dec(5, 1)>>)
    /\ ~Res.compatible
    /\ Len(Res.errors) = 1
    /\ AbsentVersionError(Res.errors[1])

(* C4: the root version is used when present; only otherwise the version of
   the first multiscales entry; later entries are never consulted; with
   neither, the version is absent. *)
VersionPrecedence ==
    Called =>
        IF RootVersionPresent THEN VersionOutcomeFor(metadata.version[1])
        ELSE IF FirstMultiscaleVersionPresent
             THEN VersionOutcomeFor(Head(metadata.multiscales[1]).version[1])
             ELSE /\ Cardinality(ErrorsFor("ome_zarr_versions")) = 1
                  /\ \A i \in ErrorsFor("ome_zarr_versions") :
                        AbsentVersionError(Res.errors[i])

\* The root says 0.4 and the first multiscales entry 0.5: 0.4 decides.
RootVersionWins ==
    /\ Called
    /\ metadata.version = Some(<<"0", ".", "4">>)
    /\ metadata.multiscales # Undefined
    /\ Len(metadata.multiscales[1]) = 2
    /\ metadata.multiscales[1][1].version = Some(<<"0", ".", "5">>)
    /\ Caps.ome_zarr_versions = Some(<<Dec(4, 1)>>)
    /\ ~HasError("ome_zarr_versions")

\* The compressor of the dataset, when present.
CompressorPresent ==
    /\ metadata.compressor # Undefined
    /\ metadata.compressor[1] \notin FalsyValues

Compressor == metadata.compressor[1]

\* A compressor whose codec resolves: a plain text, or a structured value
\* with an id.
CodecResolves ==
    /\ CompressorPresent
    /\ \/ Compressor.kind = "string"
       \/ /\ Compressor.kind = "object"
          /\ Compressor.id # Undefined
          /\ Compressor.id[1].kind = "string"
          /\ Compressor.id[1].text # ""

ResolvedCodec ==
    IF Compressor.kind = "string" THEN Compressor ELSE Compressor.id[1]

(* C5: with a compressor present and no compression_codecs list in the
   manifest, the result has exactly one compression_codecs warning and no
   compression_codecs error. *)
UndeclaredCodecsOnlyWarn ==
    (Called /\ CompressorPresent /\ Caps.compression_codecs = Undefined) =>
        /\ Cardinality(WarningsFor("compression_codecs")) = 1
        /\ ~HasError("compression_codecs")

\* Scenario E: {compressor: {id: "zstd"}} against no codec list is compatible.
UndeclaredCodecsCompatible ==
    /\ Called
    /\ metadata.compressor = Some(JsObject(Some(JsString("zstd"))))
    /\ Caps.compression_codecs = Undefined
    /\ Res.compatible
    /\ HasWarning("compression_codecs")

(* C6: with a compression_codecs list declared, possibly empty, the errors
   hold a compression_codecs entry exactly when the compressor is present and
   its codec is not in the list; required is the resolved codec (the text
   itself, or the id of a structured value) and found the declared list. With
   no compressor the rule adds neither an error nor a warning. *)
DeclaredCodecsMembership ==
    Called =>
        /\ Caps.compression_codecs # Undefined =>
              LET L == Caps.compression_codecs[1]
                  member == CodecResolves /\ IsMember(ResolvedCodec.text, L)
              IN  /\ HasError("compression_codecs") <=>
                        (CompressorPresent /\ ~member)
                  /\ ~HasWarning("compression_codecs")
                  /\ \A i \in ErrorsFor("compression_codecs") :
                        /\ Res.errors[i].found = JsArray(L)
                        /\ CodecResolves => Res.errors[i].required = ResolvedCodec
        /\ ~CompressorPresent =>
              /\ ~HasError("compression_codecs")
              /\ ~HasWarning("compression_codecs")

\* Plain text "zstd" against the declared list [blosc].
UnsupportedCodecRejected ==
    /\ Called
    /\ metadata.compressor = Some(JsString("zstd"))
    /\ Caps.compression_codecs = Some(<<"blosc">>)
    /\ \E i \in 1..Len(Res.errors) :
          /\ Res.errors[i].capability = "compression_codecs"
          /\ Res.errors[i].required = JsString("zstd")
          /\ Res.errors[i].found = JsArray(<<"blosc">>)

\* An axis of the dataset satisfying P.
SomeAxis(P(_)) ==
    /\ metadata.axes # Undefined
    /\ \E k \in 1..Len(metadata.axes[1]) : P(metadata.axes[1][k])

ChannelAxis(ax) == ax.name = "c" \/ ax.type = Some("channel")
TimeAxis(ax) == ax.name = "t" \/ ax.type = Some("time")

(* C7: the errors hold a channels entry exactly when some axis is named 'c'
   or typed 'channel' and the channels flag is false or omitted, and a
   timepoints entry exactly when some axis is named 't' or typed 'time' and
   the timepoints flag is false or omitted; neither without axes. *)
AxisKindRules ==
    Called =>
        /\ HasError("channels") <=> (SomeAxis(ChannelAxis) /\ FlagOff(Caps.channels))
        /\ HasError("timepoints") <=> (SomeAxis(TimeAxis) /\ FlagOff(Caps.timepoints))
        /\ metadata.axes = Undefined =>
              ~HasError("channels") /\ ~HasError("timepoints")

\* A second axis typed 'channel' but named 'x', a first axis named 't':
\* both errors against channels: false and timepoints omitted.
AxisKindsRejected ==
    /\ Called
    /\ metadata.axes = Some(<<[name |-> "t", type |-> Undefined],
                              [name |-> "x", type |-> Some("channel")]>>)
    /\ Caps.channels = Some(FALSE)
    /\ Caps.timepoints = Undefined
    /\ HasError("channels")
    /\ HasError("timepoints")

PlatePresent ==
    /\ metadata.plate # Undefined
    /\ metadata.plate[1] \notin FalsyValues

(* C8: the errors hold an hcs_plates entry exactly when the plate is present
   and the hcs_plates flag is false or omitted; without a plate the rule
   contributes nothing. *)
PlateRuleHard ==
    Called =>
        /\ HasError("hcs_plates") <=> (PlatePresent /\ FlagOff(Caps.hcs_plates))
        /\ ~HasWarning("hcs_plates")

\* A plate against hcs_plates: false.
PlateRejected ==
    /\ Called
    /\ PlatePresent
    /\ Caps.hcs_plates = Some(FALSE)
    /\ HasError("hcs_plates")
    /\ ~Res.compatible

LabelsPresent == metadata.labels # Undefined /\ metadata.labels[1] # << >>

(* C9: a non-empty labels list with the labels flag false or omitted adds a
   labels warning and never a labels error; absent or empty labels add
   nothing. *)
LabelsRuleAdvisory ==
    Called =>
        /\ ~HasError("labels")
        /\ Cardinality(WarningsFor("labels")) =
              IF LabelsPresent /\ FlagOff(Caps.labels) THEN 1 ELSE 0

\* Labels against labels: false, still compatible.
LabelsOnlyWarned ==
    /\ Called
    /\ LabelsPresent
    /\ Caps.labels = Some(FALSE)
    /\ HasWarning("labels")
    /\ Res.compatible

(* C10: whenever the axes field is present, also as an empty list, and the
   axes flag is false or omitted, the result has exactly one axes warning and
   no axes error; only an absent axes field skips the rule. *)
AxesRuleByPresence ==
    Called =>
        /\ ~HasError("axes")
        /\ Cardinality(WarningsFor("axes")) =
              IF metadata.axes # Undefined /\ FlagOff(Caps.axes) THEN 1 ELSE 0

\* An empty axes list against an omitted axes flag.
EmptyAxesWarned ==
    /\ Called
    /\ metadata.axes = Some(<< >>)
    /\ Caps.axes = Undefined
    /\ Cardinality(WarningsFor("axes")) = 1

OmeroPresent ==
    /\ metadata.omero # Undefined
    /\ metadata.omero[1] \notin FalsyValues

(* C11: OMERO metadata present with the omero_metadata flag false or omitted
   adds exactly one omero_metadata warning and no error; with the flag true
   there is no such warning. *)
OmeroRuleAdvisory ==
    Called =>
        /\ ~HasError("omero_metadata")
        /\ Cardinality(WarningsFor("omero_metadata")) =
              IF OmeroPresent /\ FlagOff(Caps.omero_metadata) THEN 1 ELSE 0

\* Scenario D: omero against omero_metadata: false is the only unmet feature.
OmeroOnlyWarned ==
    /\ Called
    /\ OmeroPresent
    /\ Caps.omero_metadata = Some(FALSE)
    /\ Res.compatible
    /\ Len(Res.warnings) = 1
    /\ Res.warnings[1].capability = "omero_metadata"

---------------------------------------------------------------------------
(* The batch selector: a caller holds a list of manifests and a metadata and
   calls getCompatibleViewers and getCompatibleViewersWithDetails on them. *)

\* createManifest of the tests of the batch functions (src/unnamed/part_001,
\* lines 6-25): the default capabilities with the given ones spread over
\* them, a given key replacing the default. compression_codecs, which the
\* defaults do not hold, reads as undefined unless given.
createManifest(name, capabilities) ==
    [viewer |-> [name |-> name, version |-> "1.0.0"],
     capabilities |->
        capabilities
        @@ [ome_zarr_versions |-> Some(<<Dec(4, 1), Dec(5, 1)>>),
            axes |-> Some(TRUE),
            scale |-> Some(TRUE),
            translation |-> Some(TRUE),
            channels |-> Some(TRUE),
            timepoints |-> Some(TRUE),
            labels |-> Some(FALSE),
            hcs_plates |-> Some(FALSE),
            omero_metadata |-> Some(FALSE)]
        @@ [compression_codecs |-> Undefined]]

\* The manifests of the tests: ViewerA, LimitedViewer, ViewerA declaring 0.4
\* only, Incompatible and PartialViewer. Two of them share a name.
BatchViewers ==
    {createManifest("ViewerA", [k \in {} |-> Undefined]),
     createManifest("LimitedViewer",
        [ome_zarr_versions |-> Some(<<Dec(4, 1)>>), channels |-> Some(FALSE)]),
     createManifest("ViewerA", [ome_zarr_versions |-> Some(<<Dec(4, 1)>>)]),
     createManifest("Incompatible", [ome_zarr_versions |-> Some(<<Dec(5, 1)>>)]),
     createManifest("PartialViewer",
        [ome_zarr_versions |-> Some(<<Dec(4, 1)>>), axes |-> Some(FALSE),
         omero_metadata |-> Some(FALSE)])}

\* The datasets of the tests: 0.4 with the axes z, y, x; 0.4 with a channel
\* axis; 0.5 with the axes y, x; 0.4 alone; 0.4 with OMERO metadata.
BatchMetadatas ==
    LET SpaceAxis(name) == [name |-> name, type |-> Some("space")] IN
    {MakeMetadata(QuietVersion, QuietCodec,
                  [axes |-> Some(<<SpaceAxis("z"), SpaceAxis("y"), SpaceAxis("x")>>)],
                  QuietLabels, QuietPlate, QuietOmero),
     MakeMetadata(QuietVersion, QuietCodec,
                  [axes |-> Some(<<[name |-> "c", type |-> Some("channel")],
                                   SpaceAxis("y"), SpaceAxis("x")>>)],
                  QuietLabels, QuietPlate, QuietOmero),
     MakeMetadata([version |-> Some(<<"0", ".", "5">>), multiscales |-> Undefined],
                  QuietCodec,
                  [axes |-> Some(<<SpaceAxis("y"), SpaceAxis("x")>>)],
                  QuietLabels, QuietPlate, QuietOmero),
     MakeMetadata(QuietVersion, QuietCodec, QuietAxes, QuietLabels, QuietPlate,
                  QuietOmero),
     MakeMetadata(QuietVersion, QuietCodec,
                  [axes |-> Some(<<SpaceAxis("y"), SpaceAxis("x")>>)],
                  QuietLabels, QuietPlate,
                  [omero |-> Some(JsMapping([name |-> JsString("test")]))])}

BatchInit ==
    /\ manifests \in SeqsUpTo(BatchViewers, MaxManifests)
    /\ metadata \in BatchMetadatas
    /\ viewer = MakeViewer(QuietVersion, QuietCodec, QuietAxes, QuietLabels,
                           QuietPlate, QuietOmero)
    /\ result = Undefined
    /\ raised = FALSE
    /\ before = Undefined
    /\ names = Undefined
    /\ details = Undefined
    /\ calls = << >>
    /\ LoaderIdle
    /\ CacheIdle

GetCompatibleViewers ==
    /\ names = Undefined
    /\ LET r == getCompatibleViewers(manifests, metadata)
       IN  /\ names' = Some(r.value)
           /\ calls' = r.calls
    /\ UNCHANGED <<validatorVars, manifests, details, loaderVars, cacheVars>>

GetCompatibleViewersWithDetails ==
    /\ details = Undefined
    /\ LET r == getCompatibleViewersWithDetails(manifests, metadata)
       IN  /\ details' = Some(r.value)
           /\ calls' = r.calls
    /\ UNCHANGED <<validatorVars, manifests, names, loaderVars, cacheVars>>

BatchNext == GetCompatibleViewers \/ GetCompatibleViewersWithDetails

SpecBatch == BatchInit /\ [][BatchNext]_vars

\* The positions of the input list whose manifest validateViewer reports
\* compatible with the metadata, and the place of such a position among them.
CompatibleIndexes ==
    {i \in 1..Len(manifests) : validateViewer(manifests[i], metadata).compatible}
Rank(i) == Cardinality({k \in CompatibleIndexes : k <= i})

(* C12: getCompatibleViewers returns exactly the names of the manifests that
   validateViewer reports compatible, in input order, none dropped,
   duplicated or reordered. *)
NamesAreCompatibleSubsequence ==
    names # Undefined =>
        /\ Len(names[1]) = Cardinality(CompatibleIndexes)
        /\ \A i \in CompatibleIndexes :
              names[1][Rank(i)] = manifests[i].viewer.name

\* Three manifests, the middle one incompatible: the other two names in order.
TwoOfThreeNames ==
    /\ Len(manifests) = 3
    /\ CompatibleIndexes = {1, 3}
    /\ names = Some(<<"PartialViewer", "ViewerA">>)

(* C13: getCompatibleViewersWithDetails returns, in input order, one
   {name, validation} pair per compatible manifest and none for the others;
   each validation is validateViewer's result for that manifest: compatible,
   without errors, with that manifest's warnings. *)
DetailsAreCompatibleSubsequence ==
    details # Undefined =>
        /\ Len(details[1]) = Cardinality(CompatibleIndexes)
        /\ \A i \in CompatibleIndexes :
              LET d == details[1][Rank(i)]
              IN  /\ d.name = manifests[i].viewer.name
                  /\ d.validation = validateViewer(manifests[i], metadata)
                  /\ d.validation.compatible
                  /\ d.validation.errors = << >>

\* The first manifest is dropped; of the two returned, only the second
\* carries a warning.
DetailsCarryWarnings ==
    /\ details # Undefined
    /\ Len(manifests) = 3
    /\ CompatibleIndexes = {2, 3}
    /\ Len(details[1]) = 2
    /\ details[1][1].name = "ViewerA"
    /\ details[1][1].validation.warnings = << >>
    /\ details[1][2].name = "PartialViewer"
    /\ Len(details[1][2].validation.warnings) = 1

(* C14: on an empty list both batch functions return an empty list and
   validateViewer is never invoked. *)
EmptyInputEmptyOutput ==
    manifests = << >> =>
        /\ names # Undefined => names[1] = << >>
        /\ details # Undefined => details[1] = << >>
        /\ calls = << >>

\* Both functions have been called on the empty list.
EmptyInputCalled ==
    /\ manifests = << >>
    /\ names = Some(<< >>)
    /\ details = Some(<< >>)
    /\ calls = << >>

(* C16: validateViewer never raises for well-typed inputs: with capabilities
   a record and any subset of the optional fields of manifest and metadata
   present, the call returns a ValidationResult. *)
NeverRaises ==
    /\ ~raised
    /\ Called =>
          /\ DOMAIN Res = {"compatible", "errors", "warnings"}
          /\ Res.compatible \in BOOLEAN

\* A manifest declaring nothing, a dataset with a compressor only.
ReturnsOnSparseInputs ==
    /\ Called
    /\ \A f \in DOMAIN Caps : Caps[f] = Undefined
    /\ CompressorPresent
    /\ \A f \in DOMAIN metadata \ {"compressor"} : metadata[f] = Undefined

---------------------------------------------------------------------------
(* A caller validates a dataset, then a feature that a hard rule reacts to is
   added to the metadata and the same manifest is validated again. *)

WithAxis(md, ax, atEnd) ==
    [md EXCEPT !.axes =
        IF md.axes = Undefined THEN Some(<<ax>>)
        ELSE IF atEnd THEN Some(Append(md.axes[1], ax))
        ELSE Some(<<ax>> \o md.axes[1])]

\* The metadata that md becomes by gaining a compressor, a channel axis, a
\* time axis or a plate.
FeatureAdditions(md) ==
    {[md EXCEPT !.compressor = Some(c)] :
        c \in IF TruthyAny(md.compressor) THEN {}
              ELSE {JsString("zstd"), JsObject(Some(JsString("blosc"))),
                    JsObject(Undefined)}}
    \cup {WithAxis(md, ax, atEnd) :
            ax \in {[name |-> "c", type |-> Undefined],
                    [name |-> "x", type |-> Some("channel")],
                    [name |-> "t", type |-> Undefined],
                    [name |-> "x", type |-> Some("time")]},
            atEnd \in BOOLEAN}
    \cup {[md EXCEPT !.plate = Some(p)] :
            p \in IF TruthyAny(md.plate) THEN {} ELSE {JsObject(Undefined)}}

AddFeature ==
    /\ result # Undefined
    /\ before = Undefined
    /\ \E md \in FeatureAdditions(metadata) : metadata' = md
    /\ before' = result
    /\ result' = Undefined
    /\ UNCHANGED <<viewer, raised, batchVars, loaderVars, cacheVars>>

MonoInit ==
    /\ InputsOver(UniformBackgrounds)
    /\ result = Undefined
    /\ raised = FALSE
    /\ before = Undefined
    /\ BatchIdle
    /\ LoaderIdle
    /\ CacheIdle

MonoNext == Validate \/ AddFeature

SpecMono == MonoInit /\ [][MonoNext]_vars

ErrorSet(r) == {r.errors[i] : i \in 1..Len(r.errors)}

(* C17: for a fixed manifest, adding a compressor, a channel axis, a time
   axis or a plate to the metadata keeps every error reported before, so the
   error capabilities after are a superset of those before and compatible
   never turns from false to true. *)
ErrorsMonotone ==
    (Called /\ before # Undefined) =>
        /\ ErrorSet(before[1]) \subseteq ErrorSet(Res)
        /\ {e.capability : e \in ErrorSet(before[1])}
              \subseteq {e.capability : e \in ErrorSet(Res)}
        /\ ~before[1].compatible => ~Res.compatible

\* A time axis added after a channel axis: the channels error stays and a
\* timepoints error joins it.
ErrorAddedErrorKept ==
    /\ Called
    /\ before # Undefined
    /\ \E i \in 1..Len(before[1].errors) : before[1].errors[i].capability = "channels"
    /\ ~\E i \in 1..Len(before[1].errors) : before[1].errors[i].capability = "timepoints"
    /\ HasError("channels")
    /\ HasError("timepoints")

---------------------------------------------------------------------------
(* The loader (src/src/loader.ts): loadManifestsFromUrls fetches one YAML
   document per URL, parses it, checks its structure with isValidManifest
   and returns a Map from URL to manifest.

   A parsed document is a value of type any. An object with own properties
   is [kind |-> "object", fields |-> f], where DOMAIN f is the set of its
   keys. *)


\* The object holding the keys of r whose optional value is present.
Present(r) == [k \in {j \in DOMAIN r : r[j] # Undefined} |-> r[k][1]]

\* typeof v: null and arrays are objects.
TypeOf(v) ==
    IF v.kind \in {"null", "object", "array"} THEN "object" ELSE v.kind

\* key in v, for v an object or an array (an array has no such key).
In(key, v) ==
    /\ v.kind = "object"
    /\ "fields" \in DOMAIN v
    /\ key \in DOMAIN v.fields

\* v[key]: undefined when v has no such property.
Get(v, key) == IF In(key, v) THEN v.fields[key] ELSE JsUndefined

\* v?.[key]: undefined when v is null or undefined.
OptionalChain(v, key) ==
    IF v.kind \in {"null", "undefined"} THEN JsUndefined ELSE Get(v, key)

isValidManifest(parsed) ==
    /\ TypeOf(parsed) = "object"
    /\ parsed # JsNull
    /\ In("viewer", parsed)
    /\ TypeOf(OptionalChain(Get(parsed, "viewer"), "name")) = "string"
    /\ TypeOf(OptionalChain(Get(parsed, "viewer"), "version")) = "string"
    /\ In("capabilities", parsed)
    /\ TypeOf(Get(parsed, "capabilities")) = "object"

\* What the network holds for one fetch: fetch rejects, or resolves with a
\* response of status ok or not; the body of the response cannot be read, or
\* is a text that is not YAML, or a text that yaml.load parses to a document.
Response(rejects, ok, readable, wellFormed, document) ==
    [rejects |-> rejects, ok |-> ok, readable |-> readable,
     wellFormed |-> wellFormed, document |-> document]

\* yaml.load(text): throws a YAMLException on a text that is not YAML.
yamlLoad(response) ==
    IF response.wellFormed
    THEN [threw |-> FALSE, value |-> response.document]
    ELSE [threw |-> TRUE, value |-> JsUndefined]

\* The states of the promise of one map callback.
Fetching == [pc |-> "fetching", status |-> "pending", value |-> Undefined,
             reason |-> Undefined]
Reading == [pc |-> "reading", status |-> "pending", value |-> Undefined,
            reason |-> Undefined]
TaskFulfilled(url, manifest) ==
    [pc |-> "settled", status |-> "fulfilled",
     value |-> Some([url |-> url, manifest |-> manifest]), reason |-> Undefined]
TaskRejected(cause, url) ==
    [pc |-> "settled", status |-> "rejected", value |-> Undefined,
     reason |-> Some([cause |-> cause, url |-> url])]

\* The errors of fetch, response.text() and yaml.load do not name the URL; the
\* two errors thrown by the callback do.

\* The callback from the settling of fetch(url) to its next await.
AfterFetch(url, response) ==
    IF response.rejects THEN TaskRejected("fetch rejected", Undefined)
    ELSE IF ~response.ok THEN TaskRejected("Failed to fetch manifest", Some(url))
    ELSE Reading

\* The callback after response.text() settled, with every document accepted.
AfterTextUnchecked(url, response) ==
    IF ~response.readable THEN TaskRejected("text rejected", Undefined)
    ELSE LET parsed == yamlLoad(response)
         IN  IF parsed.threw THEN TaskRejected("YAMLException", Undefined)
             ELSE TaskFulfilled(url, parsed.value)

\* The callback from the settling of response.text() to its end.
AfterText(url, response) ==
    IF ~response.readable THEN TaskRejected("text rejected", Undefined)
    ELSE LET parsed == yamlLoad(response)
         IN  IF parsed.threw THEN TaskRejected("YAMLException", Undefined)
             ELSE IF ~isValidManifest(parsed.value)
                  THEN TaskRejected("Invalid manifest structure", Some(url))
                  ELSE TaskFulfilled(url, parsed.value)

\* results.filter(r => r.status === 'fulfilled')
FulfilledResults(results) ==
    SelectSeq(results, LAMBDA r : r.status = "fulfilled")

\* The fulfilled results that precede the first rejected one.
RECURSIVE FulfilledUntilRejected(_)
FulfilledUntilRejected(results) ==
    IF results = << >> \/ results[1].status = "rejected" THEN << >>
    ELSE <<results[1]>> \o FulfilledUntilRejected(Tail(results))

\* results.filter(r => r.status === 'rejected')
RejectedResults(results) ==
    SelectSeq(results, LAMBDA r : r.status = "rejected")

\* A Map is the sequence of its entries in insertion order.
MapHas(map, key) == \E i \in 1..Len(map) : map[i].key = key
MapGet(map, key) == map[CHOOSE i \in 1..Len(map) : map[i].key = key].value

\* Map.prototype.set: the value of an existing key is replaced in place, a
\* new key is added at the end.
MapSet(map, key, value) ==
    IF MapHas(map, key)
    THEN [i \in 1..Len(map) |->
            IF map[i].key = key THEN [key |-> key, value |-> value] ELSE map[i]]
    ELSE Append(map, [key |-> key, value |-> value])

\* for (const result of fulfilled) manifests.set(url, manifest)
RECURSIVE SetAll(_, _, _)
SetAll(map, fulfilled, i) ==
    IF i > Len(fulfilled) THEN map
    ELSE SetAll(MapSet(map, fulfilled[i].value[1].url,
                       fulfilled[i].value[1].manifest),
                fulfilled, i + 1)

\* The calls of console.warn: none without a failure, else a summary with
\* the number of failures and one line per failure.
FailureLog(failures) ==
    IF Len(failures) > 0
    THEN <<[summary |-> TRUE, count |-> Len(failures), reason |-> Undefined]>>
         \o [i \in 1..Len(failures) |->
                [summary |-> FALSE, count |-> 0, reason |-> failures[i].reason]]
    ELSE << >>

\* The end of the function, as if it awaited Promise.all: it rejects with
\* the reason of a rejected task.
CompletionFailFast(results) ==
    IF RejectedResults(results) # << >>
    THEN [status |-> "rejected", value |-> Undefined, log |-> << >>]
    ELSE [status |-> "fulfilled",
          value |-> Some(SetAll(<< >>, FulfilledResults(results), 1)),
          log |-> << >>]

\* The end of the function, with the map cut at the first failure.
CompletionUntilRejected(results) ==
    [status |-> "fulfilled",
     value |-> Some(SetAll(<< >>, FulfilledUntilRejected(results), 1)),
     log |-> FailureLog(RejectedResults(results))]

\* The end of the function, with the results in the order in which the
\* callbacks settled.
CompletionInSettlingOrder(results) ==
    LET settled == [k \in 1..Len(settleOrder) |-> results[settleOrder[k]]]
    IN  [status |-> "fulfilled",
         value |-> Some(SetAll(<< >>, FulfilledResults(settled), 1)),
         log |-> FailureLog(RejectedResults(settled))]

\* The function after await Promise.allSettled(...): the results are in the
\* order of the URLs.
Completion(results) ==
    [status |-> "fulfilled",
     value |-> Some(SetAll(<< >>, FulfilledResults(results), 1)),
     log |-> FailureLog(RejectedResults(results))]

---------------------------------------------------------------------------
(* Inputs of the loader *)

\* URLs are told apart only by equality: a list is drawn up to renaming, its
\* first URL being UrlNames[1], the next new one UrlNames[2], and so on.
UrlNames == <<"https://example.com/a.yaml", "https://example.com/b.yaml",
              "https://example.com/c.yaml", "https://example.com/d.yaml">>

RECURSIVE MaxOf(_)
MaxOf(s) ==
    IF s = << >> THEN 0
    ELSE LET m == MaxOf(Tail(s)) IN IF s[1] > m THEN s[1] ELSE m

UrlLists ==
    {[i \in 1..Len(s) |-> UrlNames[s[i]]] :
        s \in {q \in SeqsUpTo(1..Len(UrlNames), MaxUrls) :
                \A i \in 1..Len(q) : q[i] <= 1 + MaxOf(SubSeq(q, 1, i - 1))}}

ViewerNames == {JsString(""), JsString("TestViewer"), JsNumber(Dec(1, 0))}
ViewerVersions == {JsString(""), JsString("1.0.0"), JsNumber(Dec(2, 0))}

\* viewer of a document: null, a text, or a mapping with or without name
\* and version, or with all of name, version, repo and template_url.
ViewerValues ==
    {JsNull, JsString("TestViewer"),
     JsMapping([name |-> JsString("TestViewer"),
                version |-> JsString("1.0.0"),
                repo |-> JsString("https://github.com/example/viewer"),
                template_url |-> JsString("https://example.com/?url={DATA_URL}")])}
    \cup {JsMapping(Present([name |-> n, version |-> v])) :
            n \in Opt(ViewerNames), v \in Opt(ViewerVersions)}

\* The capabilities of sampleManifestYaml: the keys the document holds, each
\* with its value.
DeclaredCapabilities ==
    [ome_zarr_versions |-> <<Dec(4, 1), Dec(5, 1)>>,
     compression_codecs |-> <<"blosc", "gzip">>,
     channels |-> TRUE,
     timepoints |-> TRUE]

CapabilityValues ==
    {JsNull, JsString("not an object"), JsArray(<< >>),
     JsMapping(DeclaredCapabilities)}

\* What yaml.load returns: undefined for an empty text, a scalar, a list, or
\* a mapping with or without the keys viewer and capabilities.
Documents ==
    {JsUndefined, JsNull, JsString("text"), JsArray(<< >>)}
    \cup {JsMapping(Present([viewer |-> v, capabilities |-> c])) :
            v \in Opt(ViewerValues), c \in Opt(CapabilityValues)}

FetchRejects == Response(TRUE, FALSE, FALSE, FALSE, JsUndefined)
NotOk == Response(FALSE, FALSE, TRUE, TRUE, JsString("Not Found"))
Unreadable == Response(FALSE, TRUE, FALSE, FALSE, JsUndefined)
NotYaml == Response(FALSE, TRUE, TRUE, FALSE, JsUndefined)
Ok(document) == Response(FALSE, TRUE, TRUE, TRUE, document)

Responses ==
    {FetchRejects, NotOk, Unreadable, NotYaml} \cup {Ok(d) : d \in Documents}

\* sampleManifest2Yaml
AnotherViewer ==
    JsMapping([viewer |-> JsMapping([name |-> JsString("AnotherViewer"),
                                     version |-> JsString("2.0.0")]),
               capabilities |->
                   JsMapping([ome_zarr_versions |-> <<Dec(4, 1)>>,
                              channels |-> FALSE])])

\* invalidYaml of 'rejects manifests missing viewer.name'
MissingName ==
    JsMapping([viewer |-> JsMapping([version |-> JsString("1.0.0")]),
               capabilities |-> JsMapping([ome_zarr_versions |-> <<Dec(4, 1)>>])])

PlainResponses == {FetchRejects, NotOk, Ok(AnotherViewer), Ok(MissingName)}

\* One response per URL of the list: one of them is any response, the others
\* are plain ones.
ResponseLists(n) ==
    IF n = 0 THEN {<< >>}
    ELSE {[i \in 1..n |-> IF i = focus THEN r ELSE plain[i]] :
            focus \in 1..n, r \in Responses, plain \in [1..n -> PlainResponses]}

\* validateViewer and the batch functions are not called.
ValidatorIdle ==
    /\ viewer = MakeViewer(QuietVersion, QuietCodec, QuietAxes, QuietLabels,
                           QuietPlate, QuietOmero)
    /\ metadata = MakeMetadata(QuietVersion, QuietCodec, QuietAxes, QuietLabels,
                               QuietPlate, QuietOmero)
    /\ result = Undefined
    /\ raised = FALSE
    /\ before = Undefined

---------------------------------------------------------------------------
(* The state machine of the loader: the caller calls loadManifestsFromUrls,
   the fetches settle in any order, and the function completes once every
   callback has settled. *)

LoaderInit ==
    /\ manifestUrls \in UrlLists
    /\ responses \in ResponseLists(Len(manifestUrls))
    /\ tasks = << >>
    /\ fetchCalls = << >>
    /\ settleOrder = << >>
    /\ promise = "idle"
    /\ loadedManifests = Undefined
    /\ warnLog = << >>
    /\ ValidatorIdle
    /\ BatchIdle
    /\ CacheIdle

\* The call: map runs the callback on every URL up to its first await, the
\* call of fetch, and the function awaits Promise.allSettled.
Load ==
    /\ promise = "idle"
    /\ fetchCalls' = manifestUrls
    /\ tasks' = [i \in 1..Len(manifestUrls) |-> Fetching]
    /\ promise' = "pending"
    /\ UNCHANGED <<manifestUrls, responses, settleOrder, loadedManifests, warnLog,
                   validatorVars, batchVars,
                   cacheVars>>

\* A callback counted as settled as soon as its fetch has resolved.
SettledOnceFetched(i) == tasks[i].pc \in {"reading", "settled"}

Settled(i) == tasks[i].pc = "settled"

\* fetch(url) of position i settles.
FetchSettles(i) ==
    /\ promise = "pending"
    /\ tasks[i].pc = "fetching"
    /\ LET task == AfterFetch(manifestUrls[i], responses[i])
       IN  /\ tasks' = [tasks EXCEPT ![i] = task]
           /\ settleOrder' = IF task.pc = "settled" THEN Append(settleOrder, i)
                             ELSE settleOrder
    /\ UNCHANGED <<manifestUrls, responses, fetchCalls, promise, loadedManifests,
                   warnLog, validatorVars, batchVars,
                   cacheVars>>

\* response.text() of position i settles.
TextSettles(i) ==
    /\ promise = "pending"
    /\ tasks[i].pc = "reading"
    /\ tasks' = [tasks EXCEPT ![i] = AfterText(manifestUrls[i], responses[i])]
    /\ settleOrder' = Append(settleOrder, i)
    /\ UNCHANGED <<manifestUrls, responses, fetchCalls, promise, loadedManifests,
                   warnLog, validatorVars, batchVars,
                   cacheVars>>

\* Promise.allSettled fulfils once every callback has settled; the function
\* builds the Map, logs the failures and returns.
Complete ==
    /\ promise = "pending"
    /\ \A i \in 1..Len(tasks) : Settled(i)
    /\ LET done == Completion(tasks)
       IN  /\ promise' = done.status
           /\ loadedManifests' = done.value
           /\ warnLog' = warnLog \o done.log
    /\ UNCHANGED <<manifestUrls, responses, tasks, fetchCalls, settleOrder,
                   validatorVars, batchVars,
                   cacheVars>>

LoaderNext ==
    \/ Load
    \/ \E i \in 1..Len(tasks) : FetchSettles(i)
    \/ \E i \in 1..Len(tasks) : TextSettles(i)
    \/ Complete

SpecLoader == LoaderInit /\ [][LoaderNext]_vars

---------------------------------------------------------------------------
(* Vocabulary of the properties of the loader *)

Returned == promise = "fulfilled"
Loaded == loadedManifests[1]
Positions == 1..Len(manifestUrls)
DistinctUrls ==
    \A i, j \in Positions : i # j => manifestUrls[i] # manifestUrls[j]

\* The fetch of position i resolved with an ok response whose body is read
\* and parsed to a document that passes the structural check.
Succeeds(i) ==
    /\ ~responses[i].rejects
    /\ responses[i].ok
    /\ responses[i].readable
    /\ responses[i].wellFormed
    /\ isValidManifest(responses[i].document)

\* C18: when loadManifestsFromUrls has returned for a list of distinct URLs,
\* the Map has a URL as key exactly when that URL's own fetch resolved with
\* an ok response whose parsed body passes the structural check, the value is
\* the document parsed from that URL's response, and the Map has no other
\* key: what happened to another URL plays no part.
IndependentFailure ==
    (Returned /\ DistinctUrls) =>
        /\ \A i \in Positions :
            /\ MapHas(Loaded, manifestUrls[i]) <=> Succeeds(i)
            /\ Succeeds(i) =>
                MapGet(Loaded, manifestUrls[i]) = responses[i].document
        /\ \A k \in 1..Len(Loaded) :
            \E i \in Positions : manifestUrls[i] = Loaded[k].key

\* A failure at the first URL and a success at the second: the Map holds the
\* second manifest only.
FailureBesideSuccess ==
    /\ Returned
    /\ Len(manifestUrls) = 2
    /\ DistinctUrls
    /\ responses[1] \in {FetchRejects, NotOk, Ok(MissingName)}
    /\ Succeeds(2)
    /\ Len(Loaded) = 1
    /\ Loaded[1] = [key |-> manifestUrls[2], value |-> responses[2].document]


FailedPositions == {i \in Positions : ~Succeeds(i)}
FailureLines == {k \in 1..Len(warnLog) : ~warnLog[k].summary}

\* C19: the promise of loadManifestsFromUrls never rejects, whatever the
\* fetches do; when it has fulfilled, its value is a Map, empty when no URL
\* loaded; nothing is logged without a failure, and with at least one failed
\* URL a warning is logged: a summary counting the failures and one line for
\* each.
NeverRejects ==
    /\ promise \in {"idle", "pending", "fulfilled"}
    /\ ~Returned => (loadedManifests = Undefined /\ warnLog = << >>)
    /\ Returned =>
        /\ loadedManifests # Undefined
        /\ (FailedPositions = Positions) => Loaded = << >>
        /\ (warnLog # << >>) <=> (FailedPositions # {})
        /\ FailedPositions # {} =>
            /\ warnLog[1].summary
            /\ warnLog[1].count = Cardinality(FailedPositions)
            /\ FailureLines = 2..Len(warnLog)
            /\ Cardinality(FailureLines) = Cardinality(FailedPositions)

\* Both URLs of the list failed, one at the network and one with an HTTP
\* error status: the promise fulfilled with an empty Map and three warnings.
AllFailedStillReturns ==
    /\ Returned
    /\ Len(manifestUrls) = 2
    /\ responses[1] = FetchRejects
    /\ responses[2] = NotOk
    /\ Loaded = << >>
    /\ Len(warnLog) = 3


NonEmptyString(v) == v.kind = "string" /\ v.text # ""
Structured(v) == v.kind \in {"object", "array"}

\* The document lacks a non-empty viewer name, or a non-empty viewer
\* version, or a capabilities value that is structured.
Unusable(document) ==
    \/ ~NonEmptyString(OptionalChain(Get(document, "viewer"), "name"))
    \/ ~NonEmptyString(OptionalChain(Get(document, "viewer"), "version"))
    \/ ~Structured(Get(document, "capabilities"))

\* The body at position i was read and parsed to a document.
Parsed(i) ==
    /\ ~responses[i].rejects
    /\ responses[i].ok
    /\ responses[i].readable
    /\ responses[i].wellFormed

\* C20: when loadManifestsFromUrls has returned, no URL whose document lacks
\* a non-empty viewer name, a non-empty viewer version or a structured
\* capabilities value is a key of the Map holding that document.
StructuralRejection ==
    Returned =>
        \A i \in Positions :
            (Parsed(i) /\ Unusable(responses[i].document)) =>
                ~\E k \in 1..Len(Loaded) :
                    /\ Loaded[k].key = manifestUrls[i]
                    /\ Loaded[k].value = responses[i].document

---------------------------------------------------------------------------
(* Order of the rules *)

ErrorOrder ==
    <<"ome_zarr_versions", "compression_codecs", "channels", "timepoints",
      "hcs_plates">>
WarningOrder == <<"compression_codecs", "axes", "labels", "omero_metadata">>

PositionIn(order, cap) == CHOOSE k \in 1..Len(order) : order[k] = cap

\* The capabilities of the entries are members of order and strictly follow
\* its order: a subsequence without repeats.
FollowsOrder(entries, order) ==
    /\ \A i \in 1..Len(entries) :
        \E k \in 1..Len(order) : order[k] = entries[i].capability
    /\ \A i, j \in 1..Len(entries) :
        i < j => PositionIn(order, entries[i].capability)
                    < PositionIn(order, entries[j].capability)

\* C21: in every result the capabilities of the errors are a subsequence
\* without repeats of ErrorOrder and those of the warnings one of
\* WarningOrder; compression_codecs is never in both lists; and every rule
\* whose own condition holds has its entry in the result, whatever the
\* earlier rules reported.
FixedRuleOrder ==
    Called =>
        /\ FollowsOrder(Res.errors, ErrorOrder)
        /\ FollowsOrder(Res.warnings, WarningOrder)
        /\ ~(HasError("compression_codecs") /\ HasWarning("compression_codecs"))
        /\ CodecRule(viewer, metadata).errors # << >> => HasError("compression_codecs")
        /\ ChannelsRule(viewer, metadata).errors # << >> => HasError("channels")
        /\ TimepointsRule(viewer, metadata).errors # << >> => HasError("timepoints")
        /\ PlateRule(viewer, metadata).errors # << >> => HasError("hcs_plates")
        /\ CodecRule(viewer, metadata).warnings # << >> => HasWarning("compression_codecs")
        /\ AxesRule(viewer, metadata).warnings # << >> => HasWarning("axes")
        /\ LabelsRule(viewer, metadata).warnings # << >> => HasWarning("labels")
        /\ OmeroRule(viewer, metadata).warnings # << >> => HasWarning("omero_metadata")

\* Every hard rule reported: the five errors are in the order of the rules,
\* after the version error, beside three warnings.
AllRulesReport ==
    /\ Called
    /\ [i \in 1..Len(Res.errors) |-> Res.errors[i].capability] = ErrorOrder
    /\ [i \in 1..Len(Res.warnings) |-> Res.warnings[i].capability]
            = <<"axes", "labels", "omero_metadata">>

---------------------------------------------------------------------------
(* Invocations of validateViewer by the batch functions *)

BatchCalled == names # Undefined \/ details # Undefined

\* C22: during a call of getCompatibleViewers or of
\* getCompatibleViewersWithDetails, validateViewer is invoked exactly once
\* for each manifest of the list, in input order.
OncePerManifest == BatchCalled => calls = manifests

---------------------------------------------------------------------------
(* A structured compressor without id *)

\* C23: when metadata.compressor is a structured value with no id field, the
\* result has neither an error nor a warning of capability
\* compression_codecs, as if no compressor were declared.
UnresolvableCodecSkipped ==
    (/\ Called
     /\ metadata.compressor # Undefined
     /\ Compressor.kind = "object"
     /\ Compressor.id = Undefined) =>
        /\ ~HasError("compression_codecs")
        /\ ~HasWarning("compression_codecs")

---------------------------------------------------------------------------
(* Fields validateViewer does not read. A caller validates, changes fields
   that no rule reads (in the manifest: the identity of the viewer and the
   capabilities rfcs_supported, scale, translation, bioformats2raw_layout; in
   the metadata: the unit of an axis and the datasets of a multiscale), and
   validates again. An absent optional property is an absent key. *)

\* viewer.viewer of other manifests: name, version, repo, template_url.
Identities ==
    {[name |-> "OtherViewer", version |-> "1.0.0"],
     [name |-> "TestViewer", version |-> "2.0.0-beta"],
     [name |-> "TestViewer", version |-> "1.0.0",
      repo |-> "https://github.com/example/viewer"],
     [name |-> "TestViewer", version |-> "1.0.0",
      template_url |-> "https://example.com/?url={DATA_URL}"],
     [name |-> "", version |-> "",
      repo |-> "", template_url |-> ""]}

\* Capabilities that no rule reads, one at a time and all together.
UnevaluatedCapabilities ==
    {[rfcs_supported |-> << >>], [rfcs_supported |-> <<Dec(5, 0)>>],
     [scale |-> TRUE], [scale |-> FALSE],
     [translation |-> TRUE], [translation |-> FALSE],
     [bioformats2raw_layout |-> TRUE], [bioformats2raw_layout |-> FALSE],
     [rfcs_supported |-> <<Dec(5, 0)>>, scale |-> FALSE, translation |-> FALSE,
      bioformats2raw_layout |-> TRUE]}

\* Manifests that agree with v on every capability a rule reads.
ManifestVariants(v) ==
    {[v EXCEPT !.viewer = id] : id \in Identities}
    \cup {[v EXCEPT !.capabilities = extra @@ v.capabilities] :
            extra \in UnevaluatedCapabilities}
    \cup {[viewer |-> id, capabilities |-> extra @@ v.capabilities] :
            id \in Identities, extra \in {e \in UnevaluatedCapabilities :
                                            Cardinality(DOMAIN e) > 1}}

\* The axes with a unit on the axes of the set at.
WithUnits(axes, at, unit) ==
    [i \in 1..Len(axes) |-> IF i \in at THEN [unit |-> unit] @@ axes[i] ELSE axes[i]]

\* The multiscales with datasets on every entry.
WithDatasets(multiscales, datasets) ==
    [i \in 1..Len(multiscales) |-> [datasets |-> datasets] @@ multiscales[i]]

\* Metadata that agree with md on everything but axis units and datasets.
MetadataVariants(md) ==
    (IF md.axes = Undefined THEN {}
     ELSE {[md EXCEPT !.axes = Some(WithUnits(md.axes[1], at, u))] :
            at \in SUBSET (1..Len(md.axes[1])) \ {{}}, u \in {"micrometer", "second"}})
    \cup (IF md.multiscales = Undefined \/ md.multiscales = Some(<< >>) THEN {}
          ELSE {[md EXCEPT !.multiscales = Some(WithDatasets(md.multiscales[1], d))] :
                 d \in {<< >>, <<JsObject(Undefined)>>}})

\* Every rule other than the one in focus reports.
LoudBackgrounds == {[g \in Groups |-> TRUE]}

VaryInit ==
    /\ InputsOver(LoudBackgrounds)
    /\ result = Undefined
    /\ raised = FALSE
    /\ before = Undefined
    /\ BatchIdle
    /\ LoaderIdle
    /\ CacheIdle

\* The caller keeps the result and takes a manifest that differs in fields
\* no rule reads.
VaryManifest ==
    /\ result # Undefined
    /\ before = Undefined
    /\ \E v \in ManifestVariants(viewer) : viewer' = v
    /\ before' = result
    /\ result' = Undefined
    /\ UNCHANGED <<metadata, raised, batchVars, loaderVars, cacheVars>>

\* The caller keeps the result and takes a metadata that differs in axis
\* units or in datasets.
VaryMetadata ==
    /\ result # Undefined
    /\ before = Undefined
    /\ \E md \in MetadataVariants(metadata) : metadata' = md
    /\ before' = result
    /\ result' = Undefined
    /\ UNCHANGED <<viewer, raised, batchVars, loaderVars, cacheVars>>

VaryNext == Validate \/ VaryManifest \/ VaryMetadata

SpecVary == VaryInit /\ [][VaryNext]_vars

\* C24: a manifest that differs only in viewer name, viewer version, repo,
\* template_url, rfcs_supported, scale, translation or bioformats2raw_layout,
\* and a metadata that differs only in axis units or multiscales datasets,
\* get a result equal to the result obtained before the change.
UnevaluatedFieldsIgnored ==
    (Called /\ before # Undefined) => Res = before[1]

\* A manifest with another identity and with the four unread capabilities
\* got the same incompatible result, plate error included.
OtherIdentitySameErrors ==
    /\ Called
    /\ before # Undefined
    /\ viewer.viewer.name # "TestViewer"
    /\ DOMAIN viewer.capabilities = CapabilityKeys
            \cup {"rfcs_supported", "scale", "translation", "bioformats2raw_layout"}
    /\ HasError("hcs_plates")
    /\ Len(Res.errors) > 1

---------------------------------------------------------------------------
(* The loader followed by the evaluator: the caller awaits
   loadManifestsFromUrls and passes the manifests of the Map to validateViewer
   and to the batch functions. *)

\* Property reads on an array of capabilities: every capability is undefined.
NoCapabilities == [k \in CapabilityKeys |-> Undefined]

\* The document seen through the type ViewerManifest (parsed is
\* ViewerManifest): the same object, with every key of viewer and of
\* capabilities it holds, capabilities null included. A text is held as the
\* text itself, and a capability the object has no key for reads as
\* undefined.
AsManifest(document) ==
    LET identity == Get(document, "viewer").fields
        capabilities == Get(document, "capabilities")
    IN  [viewer |->
            [k \in DOMAIN identity |->
                IF identity[k].kind = "string" THEN identity[k].text
                ELSE identity[k]],
         capabilities |->
            IF capabilities = JsNull THEN JsNull
            ELSE IF capabilities.kind = "array" THEN NoCapabilities
            ELSE [k \in CapabilityKeys \cup DOMAIN capabilities.fields |->
                    IF k \in DOMAIN capabilities.fields
                    THEN Some(capabilities.fields[k])
                    ELSE Undefined]]

\* Array.from(manifestsMap.values())
MapValues(map) == [i \in 1..Len(map) |-> AsManifest(map[i].value)]

\* The manifests up to the first one on which validateViewer throws: the
\* filter callback stops there.
RECURSIVE CallsUntilRaise(_, _)
CallsUntilRaise(ms, md) ==
    IF ms = << >> THEN << >>
    ELSE IF validateViewerRaises(ms[1], md) THEN <<ms[1]>>
    ELSE <<ms[1]>> \o CallsUntilRaise(Tail(ms), md)

BatchRaises(ms, md) == \E i \in 1..Len(ms) : validateViewerRaises(ms[i], md)

\* Datasets: one with version 0.4 and one without any field.
PipelineMetadatas ==
    {MakeMetadata(QuietVersion, QuietCodec, QuietAxes, QuietLabels, QuietPlate,
                  QuietOmero),
     MakeMetadata(LoudVersion, QuietCodec, QuietAxes, QuietLabels, QuietPlate,
                  QuietOmero)}

PipelineInit ==
    /\ manifestUrls \in UrlLists
    /\ responses \in ResponseLists(Len(manifestUrls))
    /\ tasks = << >>
    /\ fetchCalls = << >>
    /\ settleOrder = << >>
    /\ promise = "idle"
    /\ loadedManifests = Undefined
    /\ warnLog = << >>
    /\ viewer = MakeViewer(QuietVersion, QuietCodec, QuietAxes, QuietLabels,
                           QuietPlate, QuietOmero)
    /\ metadata \in PipelineMetadatas
    /\ result = Undefined
    /\ raised = FALSE
    /\ before = Undefined
    /\ BatchIdle
    /\ CacheIdle

\* validateViewer(manifestsMap.get(url), metadata)
ValidateLoaded(k) ==
    /\ promise = "fulfilled"
    /\ result = Undefined
    /\ ~raised
    /\ LET v == AsManifest(loadedManifests[1][k].value)
       IN  /\ viewer' = v
           /\ IF validateViewerRaises(v, metadata)
              THEN raised' = TRUE /\ result' = Undefined
              ELSE raised' = FALSE /\ result' = Some(validateViewer(v, metadata))
    /\ UNCHANGED <<metadata, before, batchVars, loaderVars, cacheVars>>

\* getCompatibleViewers(Array.from(manifestsMap.values()), metadata); the
\* filter calls isCompatible on each manifest.
SelectLoaded ==
    /\ promise = "fulfilled"
    /\ names = Undefined
    /\ ~raised
    /\ LET ms == MapValues(loadedManifests[1])
       IN  /\ manifests' = ms
           /\ IF BatchRaises(ms, metadata)
              THEN /\ raised' = TRUE
                   /\ names' = Undefined
                   /\ calls' = CallsUntilRaise(ms, metadata)
              ELSE /\ raised' = FALSE
                   /\ names' = Some(getCompatibleViewers(ms, metadata).value)
                   /\ calls' = getCompatibleViewers(ms, metadata).calls
    /\ UNCHANGED <<viewer, metadata, result, before, details, loaderVars, cacheVars>>

\* getCompatibleViewersWithDetails(Array.from(manifestsMap.values()), metadata)
SelectLoadedWithDetails ==
    /\ promise = "fulfilled"
    /\ details = Undefined
    /\ ~raised
    /\ LET ms == MapValues(loadedManifests[1])
       IN  /\ manifests' = ms
           /\ IF BatchRaises(ms, metadata)
              THEN /\ raised' = TRUE
                   /\ details' = Undefined
                   /\ calls' = CallsUntilRaise(ms, metadata)
              ELSE /\ raised' = FALSE
                   /\ details' =
                        Some(getCompatibleViewersWithDetails(ms, metadata).value)
                   /\ calls' = getCompatibleViewersWithDetails(ms, metadata).calls
    /\ UNCHANGED <<viewer, metadata, result, before, names, loaderVars, cacheVars>>

PipelineNext ==
    \/ Load
    \/ \E i \in 1..Len(tasks) : FetchSettles(i)
    \/ \E i \in 1..Len(tasks) : TextSettles(i)
    \/ Complete
    \/ \E k \in 1..Len(manifestUrls) :
        promise = "fulfilled" /\ k <= Len(loadedManifests[1]) /\ ValidateLoaded(k)
    \/ SelectLoaded
    \/ SelectLoadedWithDetails

SpecPipeline == PipelineInit /\ [][PipelineNext]_vars

\* C25: no call of validateViewer, getCompatibleViewers (and with it
\* isCompatible) or getCompatibleViewersWithDetails on manifests of the Map
\* returned by loadManifestsFromUrls raises an exception.
LoadedManifestsNeverRaise == ~raised

---------------------------------------------------------------------------
(* Order of completion *)

SuccessfulPositions == {i \in Positions : Succeeds(i)}
SuccessesOf(url) == {i \in SuccessfulPositions : manifestUrls[i] = url}
FirstSuccess(url) == CHOOSE i \in SuccessesOf(url) : \A j \in SuccessesOf(url) : i <= j
LastSuccess(url) == CHOOSE i \in SuccessesOf(url) : \A j \in SuccessesOf(url) : j <= i

\* C26: whatever the order in which the fetches settled, the returned Map is
\* the one fixed by the URL list and the responses: its keys are the URLs
\* with a successful occurrence, each once, in the input order of their
\* first successful occurrence, and the value of a key is the document of
\* its last successful occurrence in input order.
CompletionOrderIndependent ==
    Returned =>
        /\ \A i \in SuccessfulPositions : MapHas(Loaded, manifestUrls[i])
        /\ \A k \in 1..Len(Loaded) :
            /\ SuccessesOf(Loaded[k].key) # {}
            /\ Loaded[k].value = responses[LastSuccess(Loaded[k].key)].document
        /\ \A k, l \in 1..Len(Loaded) :
            k < l => FirstSuccess(Loaded[k].key) < FirstSuccess(Loaded[l].key)

\* The same URL twice with two different valid documents, the second fetch
\* settling first: the Map holds the document of the second occurrence.
LastOccurrenceKeptThoughFirstToSettle ==
    /\ Returned
    /\ Len(manifestUrls) = 2
    /\ manifestUrls[1] = manifestUrls[2]
    /\ Succeeds(1)
    /\ Succeeds(2)
    /\ responses[1].document # responses[2].document
    /\ settleOrder = <<2, 1>>
    /\ Len(Loaded) = 1
    /\ Loaded[1].value = responses[2].document

---------------------------------------------------------------------------
(* Completion of the loader. Every fetch settles (the hypothesis on the
   network) and the continuation of a fulfilled await is run by the event
   loop. Nothing makes response.text() settle: the callback awaits it
   without a timeout. *)

\* One response of each kind.
ResponseKinds ==
    {FetchRejects, NotOk, Unreadable, NotYaml, Ok(AnotherViewer), Ok(MissingName)}

FairInit ==
    /\ manifestUrls \in UrlLists
    /\ responses \in [1..Len(manifestUrls) -> ResponseKinds]
    /\ tasks = << >>
    /\ fetchCalls = << >>
    /\ settleOrder = << >>
    /\ promise = "idle"
    /\ loadedManifests = Undefined
    /\ warnLog = << >>
    /\ ValidatorIdle
    /\ BatchIdle
    /\ CacheIdle

SpecLoaderFair ==
    /\ FairInit
    /\ [][LoaderNext]_vars
    /\ WF_vars(\E i \in 1..Len(tasks) : FetchSettles(i))
    /\ WF_vars(Complete)

\* fetch was called once per entry of the list, in order, and the promise
\* has not settled while a callback is still waiting.
OneFetchPerUrl ==
    /\ promise = "idle" => fetchCalls = << >>
    /\ promise # "idle" => fetchCalls = manifestUrls
    /\ promise \in {"fulfilled", "rejected"} =>
        \A i \in 1..Len(tasks) : tasks[i].pc = "settled"

\* No callback is waiting for the body of its response.
NoBodyAwaited == \A i \in 1..Len(tasks) : tasks[i].pc # "reading"

\* C27 as stated: loadManifestsFromUrls starts exactly one fetch per entry of
\* the URL list (none for the empty list, none again after a failure), its
\* promise does not settle before every one of them has settled, and, every
\* fetch settling, a pending promise eventually fulfils.
LoaderCompletes ==
    /\ []OneFetchPerUrl
    /\ (promise = "pending") ~> (promise = "fulfilled")

\* C27, amended: one fetch per entry of the URL list, no settling of the
\* promise before every callback has settled, and a pending promise
\* eventually fulfils provided that every fetch settles and that every
\* response.text() settles too, so that no callback waits for a body for ever.
LoaderCompletesOnceBodiesRead ==
    /\ []OneFetchPerUrl
    /\ ([]<>NoBodyAwaited) => ((promise = "pending") ~> (promise = "fulfilled"))

\* Two URLs were fetched once each, the first fetch rejected, the body of the
\* second response was read, and the promise fulfilled after both callbacks
\* settled.
FulfilledAfterAllSettled ==
    /\ promise = "fulfilled"
    /\ Len(manifestUrls) = 2
    /\ fetchCalls = manifestUrls
    /\ responses[1] = FetchRejects
    /\ responses[2] = Ok(AnotherViewer)
    /\ Len(settleOrder) = 2
    /\ \A i \in 1..2 : tasks[i].pc = "settled"

---------------------------------------------------------------------------
(* The cached entry point (src/unnamed/part_001, lines 449-542):
   initializeViewerManifests calls loadViewerManifests, fills the module
   variable cachedManifests with what it fulfils with, and the queries read
   it. loadViewerManifests is described by its tests (src/unnamed/part_002):
   it calls fetch once per URL of VIEWER_REGISTRY, fulfils with the manifests
   of the fetches that succeeded, in registry order, and calls console.warn
   when a fetch failed. *)

FailedToLoadAny == "Failed to load any viewer manifests"
Resolved == "resolved"

\* VIEWER_REGISTRY.map(entry => entry.manifestUrl)
RegistryUrls ==
    <<"https://raw.githubusercontent.com/BioImageTools/capability-manifest/main/public/viewers/vizarr.yaml",
      "https://raw.githubusercontent.com/BioImageTools/capability-manifest/main/public/viewers/neuroglancer.yaml",
      "https://raw.githubusercontent.com/BioImageTools/capability-manifest/main/public/viewers/n5-ij.yaml">>

\* What the network holds for the three fetches of one call of
\* loadViewerManifests, as the mocks of fetch of the tests set it: every
\* fetch serves one manifest, the first serves one and the others another,
\* every fetch rejects, every fetch answers 404, only the first succeeds, or
\* the second answers 500 between two manifests.
RegistryResponses ==
    LET TestViewer(capabilities) ==
            Ok(JsMapping([viewer |-> JsMapping([name |-> JsString("TestViewer"),
                                                version |-> JsString("1.0.0")]),
                          capabilities |-> JsMapping(capabilities)]))
        Sample == TestViewer([ome_zarr_versions |-> <<Dec(4, 1), Dec(5, 1)>>,
                              compression_codecs |-> <<"blosc", "gzip">>,
                              channels |-> TRUE,
                              timepoints |-> TRUE,
                              labels |-> TRUE,
                              hcs_plates |-> FALSE])
        Limited ==
            Ok(JsMapping([viewer |-> JsMapping([name |-> JsString("LimitedViewer"),
                                                version |-> JsString("1.0.0")]),
                          capabilities |->
                              JsMapping([ome_zarr_versions |-> <<Dec(4, 1)>>,
                                         channels |-> FALSE,
                                         timepoints |-> FALSE])]))
    IN  {<<Sample, Sample, Sample>>,
         <<Sample, Limited, Limited>>,
         <<Limited, Limited, Limited>>,
         <<FetchRejects, FetchRejects, FetchRejects>>,
         <<NotOk, NotOk, NotOk>>,
         <<TestViewer(DeclaredCapabilities), FetchRejects, FetchRejects>>,
         <<TestViewer(DeclaredCapabilities), NotOk, Ok(AnotherViewer)>>}

\* await loadViewerManifests(), once the three fetches have settled: the
\* manifests of the fetches that succeeded, in registry order, and the calls
\* of console.warn for those that failed. The tests assert that console.warn
\* is called; the calls are taken to be those of loadManifestsFromUrls.
loadViewerManifests(registryResponses) ==
    LET results ==
            [i \in 1..Len(RegistryUrls) |->
                IF AfterFetch(RegistryUrls[i], registryResponses[i]) = Reading
                THEN AfterText(RegistryUrls[i], registryResponses[i])
                ELSE AfterFetch(RegistryUrls[i], registryResponses[i])]
    IN  [value |-> [i \in 1..Len(FulfilledResults(results)) |->
                        AsManifest(FulfilledResults(results)[i].value[1].manifest)],
         log |-> FailureLog(RejectedResults(results))]

\* if (!cachedManifests) throw: null is falsy, every array is truthy.
NotInitialized(cache) == cache = Undefined

CacheInit ==
    /\ CacheIdle
    /\ viewer = MakeViewer(QuietVersion, QuietCodec, QuietAxes, QuietLabels,
                           QuietPlate, QuietOmero)
    /\ metadata \in BatchMetadatas
    /\ result = Undefined
    /\ raised = FALSE
    /\ before = Undefined
    /\ BatchIdle
    /\ LoaderIdle

\* A call of initializeViewerManifests, up to its await: loadViewerManifests
\* has called fetch once per URL of the registry. Nothing keeps a caller from
\* calling again while an earlier call awaits.
InitializeViewerManifests ==
    /\ LET started == Cardinality(initializing) + Len(initHistory)
       IN  /\ started < MaxInitializations
           /\ initializing' =
                 initializing \cup {[call |-> started + 1, loaded |-> Undefined]}
    /\ fetchCalls' = fetchCalls \o RegistryUrls
    /\ UNCHANGED <<cachedManifests, initHistory, lastQuery, validatorVars,
                   batchVars, manifestUrls, responses, tasks, settleOrder,
                   promise, loadedManifests, warnLog>>

\* The fetches of one of the awaiting calls have settled: loadViewerManifests
\* warns of the failures and fulfils. The call that awaits it has not resumed:
\* cachedManifests is what it was.
RegistryLoaded ==
    /\ \E awaiting \in initializing, registryResponses \in RegistryResponses :
        /\ awaiting.loaded = Undefined
        /\ warnLog' = warnLog \o loadViewerManifests(registryResponses).log
        /\ initializing' =
              (initializing \ {awaiting})
              \cup {[awaiting EXCEPT
                        !.loaded = Some(loadViewerManifests(registryResponses).value)]}
    /\ UNCHANGED <<cachedManifests, initHistory, lastQuery, validatorVars,
                   batchVars, manifestUrls, responses, tasks, fetchCalls,
                   settleOrder, promise, loadedManifests>>

\* initializeViewerManifests resumes after its await and runs to its end: the
\* assignment, then the test of the length, which throws on an empty list.
InitializationResumes ==
    /\ \E awaiting \in initializing :
        /\ awaiting.loaded # Undefined
        /\ cachedManifests' = awaiting.loaded
        /\ initHistory' =
              Append(initHistory,
                     [call |-> awaiting.call,
                      outcome |-> IF Len(awaiting.loaded[1]) = 0
                                  THEN FailedToLoadAny ELSE Resolved])
        /\ initializing' = initializing \ {awaiting}
    /\ UNCHANGED <<lastQuery, validatorVars, batchVars, loaderVars>>

\* getCompatibleViewers(metadata) of the cached entry point.
QueryNames ==
    /\ lastQuery' =
        Some(IF NotInitialized(cachedManifests)
             THEN [function |-> "getCompatibleViewers", threw |-> TRUE,
                   value |-> << >>, after |-> initHistory]
             ELSE [function |-> "getCompatibleViewers", threw |-> FALSE,
                   value |-> getCompatibleViewers(cachedManifests[1], metadata).value,
                   after |-> initHistory])
    /\ UNCHANGED <<cachedManifests, initializing, initHistory, validatorVars,
                   batchVars, loaderVars>>

\* getCompatibleViewersWithDetails(metadata) of the cached entry point.
QueryDetails ==
    /\ lastQuery' =
        Some(IF NotInitialized(cachedManifests)
             THEN [function |-> "getCompatibleViewersWithDetails", threw |-> TRUE,
                   value |-> << >>, after |-> initHistory]
             ELSE [function |-> "getCompatibleViewersWithDetails", threw |-> FALSE,
                   value |-> getCompatibleViewersWithDetails(cachedManifests[1],
                                                             metadata).value,
                   after |-> initHistory])
    /\ UNCHANGED <<cachedManifests, initializing, initHistory, validatorVars,
                   batchVars, loaderVars>>

CacheNext ==
    \/ InitializeViewerManifests
    \/ RegistryLoaded
    \/ InitializationResumes
    \/ QueryNames
    \/ QueryDetails

SpecCache == CacheInit /\ [][CacheNext]_vars

\* An initialization rejected with FailedToLoadAny and none resolved later.
FailedSinceSuccess(history) ==
    \E i \in 1..Len(history) :
        /\ history[i].outcome = FailedToLoadAny
        /\ \A j \in (i + 1)..Len(history) : history[j].outcome # Resolved

\* C28: a query made after an initialization rejected with "Failed to load
\* any viewer manifests", no later one having resolved, throws "Library not
\* initialized"; and a query returns only after an initialization resolved.
FailedInitializationLeavesUninitialized ==
    lastQuery # Undefined =>
        /\ FailedSinceSuccess(lastQuery[1].after) => lastQuery[1].threw
        /\ ~lastQuery[1].threw =>
            \E i \in 1..Len(lastQuery[1].after) :
                lastQuery[1].after[i].outcome = Resolved

====
